---- MODULE Spec2Model ----
(***************************************************************************)
(* HyperDbX: the expiring cache (src/memory-cache.js), the file-backed     *)
(* adapter (adapters/filestore-adapter.js), the storage engine             *)
(* (src/storage-engine.js) and the coordinator (index.js).                 *)
(*                                                                         *)
(* The specifications share the variables below:                           *)
(*   SpecCache     a MemoryCache driven directly through its methods;      *)
(*   SpecKV        HyperDB key/value calls over StorageEngine and          *)
(*                 FileStoreAdapter, with the calls' continuations         *)
(*                 interleaving as the event loop lets them;               *)
(*   SpecDocs      StorageEngine document calls over FileStoreAdapter;     *)
(*   SpecRegistry  SpecDocs with fewer documents, queries and updates;     *)
(*   SpecAdapter   a FileStoreAdapter driven directly, connected or not;   *)
(*   SpecMatch     matches(obj, query) of src/utils.js on its own;         *)
(*   SpecConc      adapter update and insert calls split at their awaits;  *)
(*   SpecFaults    adapter calls whose file operations may throw;          *)
(*   SpecNotify    HyperDB mutating calls and the events they forward;     *)
(*   SpecStats     SpecCache with getStats();                              *)
(*   SpecConfig    a HyperDB constructed with cache options;               *)
(*   SpecInit      document calls made while initialize() is under way;    *)
(*   SpecUndo      update and deleteFrom calls split at their awaits;      *)
(*   SpecBatch     an update whose loop of writes may fail part-way;       *)
(*   SpecTrack     the engine's registry beside the adapter's collections; *)
(*   SpecTwin      a FileStoreAdapter and a JSONAdapter                    *)
(*                 (src/adapters/json-adapter.js) given the same calls.    *)
(***************************************************************************)
EXTENDS Integers, Sequences, FiniteSets, TLC

VARIABLES
  now,          \* Date.now(), in milliseconds
  cache,        \* the MemoryCache object: maxSize, ttl, its two Maps, stats
  ret,          \* the call that ran last and what it returned
  kvFiles,      \* <root>/keyvalue/: file name -> file text
  connected,    \* FileStoreAdapter.connected
  pending,      \* HyperDB calls suspended at their await, oldest first
  hist,         \* what each specification records beside the program's state
  collections,  \* FileStoreAdapter.collections (normalized names)
  listFile,     \* <root>/collections.json
  dirs,         \* <root>/collections/<dir>/: file name -> document
  registry,     \* StorageEngine.collections (names as the caller gave them)
  genCount,     \* how many ids generateId() has handed out
  docCalls      \* how many document-writing calls have run

vars == <<now, cache, ret, kvFiles, connected, pending, hist,
          collections, listFile, dirs, registry, genCount, docCalls>>

cacheVars == <<now, cache, ret>>
kvVars == <<kvFiles, connected, pending, hist>>
docVars == <<collections, listFile, dirs, registry, genCount, docCalls>>

----------------------------------------------------------------------------
(* JavaScript values.  Every value is a record of the same shape, so that  *)
(* values of different types can be compared: t is typeof (with "null"     *)
(* apart), s the text of a string, n the number.                           *)

Undefined == [t |-> "undefined", s |-> "", n |-> 0]
Null == [t |-> "null", s |-> "", n |-> 0]
Str(s) == [t |-> "string", s |-> s, n |-> 0]
Num(n) == [t |-> "number", s |-> "", n |-> n]
NaN == [t |-> "number", s |-> "NaN", n |-> 0]
Bool(b) == [t |-> "boolean", s |-> "", n |-> IF b THEN 1 ELSE 0]

\* A thrown Error with its message
Error(message) == [t |-> "error", s |-> message, n |-> 0]

\* No value at all (of the model, not of JavaScript)
NoValue == [t |-> "none", s |-> "", n |-> 0]

\* ToBoolean: what `if (x)`, `!x` and `x || y` test.
Truthy(v) ==
  CASE v.t = "undefined" -> FALSE
    [] v.t = "null" -> FALSE
    [] v.t = "string" -> v.s # ""
    [] v.t = "number" -> v.s # "NaN" /\ v.n # 0
    [] v.t = "boolean" -> v.n = 1
    [] OTHER -> TRUE

\* x || y
Or(x, y) == IF Truthy(x) THEN x ELSE y

\* An object { ... } held as a value: o is its fields
ObjectOf(fields) == [t |-> "object", s |-> "", n |-> 0, o |-> fields]

\* x === y (NaN equals nothing, itself included; an object read from a file
\* or written in a call is no other object)
StrictEq(x, y) == x = y /\ x # NaN /\ x.t # "object"

----------------------------------------------------------------------------
(* Bounds of the model.                                                    *)

MaxTime == 2
MaxCalls == 3
CacheMaxSize == 2
CacheTtl == 1
\* MaxTime: the clock runs from 0 to MaxTime.  MaxCalls: the set and get
\* calls a cache's stats count.  CacheMaxSize, CacheTtl: options.maxSize and
\* options.ttl of the cache of SpecCache.

CacheKeys == {"", "a", "b"}
CacheValues == {Num(1), Num(2)}
TtlArgs == {Undefined, Num(0)}

----------------------------------------------------------------------------
(* MemoryCache.  this.cache and this.expiry are two Maps that set() and    *)
(* delete() change together, so they hold the same keys in the same        *)
(* insertion order: entries is that order, each entry with its value (of   *)
(* this.cache) and its expiry (of this.expiry).                            *)

DefaultMaxSize == 1000
DefaultTtl == 3600000

ZeroStats == [hits |-> 0, misses |-> 0, sets |-> 0, deletes |-> 0]

\* new MemoryCache(options); an option that is absent or 0 takes the default.
MemoryCache(maxSize, ttl) ==
  [maxSize |-> IF maxSize # 0 THEN maxSize ELSE DefaultMaxSize,
   ttl |-> IF ttl # 0 THEN ttl ELSE DefaultTtl,
   entries |-> <<>>,
   stats |-> ZeroStats]

\* Map.prototype.has / get / set / delete on the pair of Maps
MapHas(entries, key) == \E i \in DOMAIN entries : entries[i].key = key

MapIndex(entries, key) == CHOOSE i \in DOMAIN entries : entries[i].key = key

MapGet(entries, key) == entries[MapIndex(entries, key)]

MapSet(entries, key, value, expiry) ==
  LET e == [key |-> key, value |-> value, expiry |-> expiry]
  IN IF MapHas(entries, key)
       THEN [entries EXCEPT ![MapIndex(entries, key)] = e]
       ELSE Append(entries, e)

MapDelete(entries, key) ==
  SelectSeq(entries, LAMBDA e : e.key # key)

\* The comparison of Expired turned round
Expired_Reversed(expiryTime, n) == expiryTime > n

\* expiryTime < Date.now()
Expired(expiryTime, n) == expiryTime < n

\* delete(key) that leaves the entry where it is
MC_delete_Kept(c, key) == c

\* delete(key)
MC_delete(c, key) ==
  IF MapHas(c.entries, key)
    THEN [c EXCEPT !.entries = MapDelete(c.entries, key),
                   !.stats.deletes = @ + 1]
    ELSE c

\* The loop of _evictOldest over this.expiry.entries(): oldestKey after the
\* first i entries.  oldestTime starts at Infinity, which every expiry is
\* below, and an entry replaces the oldest only when strictly earlier.
RECURSIVE OldestAfter(_, _)
OldestAfter(entries, i) ==
  IF i = 0 THEN Null
  ELSE LET prev == OldestAfter(entries, i - 1)
       IN IF prev = Null \/ entries[i].expiry < MapGet(entries, prev.s).expiry
            THEN Str(entries[i].key)
            ELSE prev

\* _evictOldest()
MC_evictOldest(c) ==
  LET oldestKey == OldestAfter(c.entries, Len(c.entries))
  IN IF Truthy(oldestKey) THEN MC_delete(c, oldestKey.s) ELSE c

\* set(key, value, ttl) that makes room whenever the cache is full, the key
\* present or not
MC_set_AlwaysEvicts(c, key, value, ttlArg, n) ==
  LET ttl == IF ttlArg = Undefined THEN c.ttl ELSE ttlArg.n
      c1 == IF Len(c.entries) >= c.maxSize THEN MC_evictOldest(c) ELSE c
  IN [c1 EXCEPT !.entries = MapSet(c1.entries, key, value, n + ttl),
                !.stats.sets = @ + 1]

\* set(key, value, ttl = this.ttl) at time n
MC_set(c, key, value, ttlArg, n) ==
  LET ttl == IF ttlArg = Undefined THEN c.ttl ELSE ttlArg.n
      c1 == IF Len(c.entries) >= c.maxSize /\ ~MapHas(c.entries, key)
              THEN MC_evictOldest(c)
              ELSE c
  IN [c1 EXCEPT !.entries = MapSet(c1.entries, key, value, n + ttl),
                !.stats.sets = @ + 1]

\* get(key) that deletes every expired entry it finds, not only key's
MC_get_Sweeping(c, key, n) ==
  LET gone == {c.entries[i].key : i \in {j \in DOMAIN c.entries :
                                           Expired(c.entries[j].expiry, n)}}
      swept == [c EXCEPT !.entries = SelectSeq(c.entries,
                                               LAMBDA e : e.key \notin gone),
                         !.stats.deletes = @ + Cardinality(gone)]
  IN IF ~MapHas(swept.entries, key)
       THEN [cache |-> [swept EXCEPT !.stats.misses = @ + 1],
             result |-> Undefined]
       ELSE [cache |-> [swept EXCEPT !.stats.hits = @ + 1],
             result |-> MapGet(swept.entries, key).value]

\* get(key) at time n: the cache afterwards and the value returned
MC_get(c, key, n) ==
  IF ~MapHas(c.entries, key)
    THEN [cache |-> [c EXCEPT !.stats.misses = @ + 1], result |-> Undefined]
    ELSE IF Expired(MapGet(c.entries, key).expiry, n)
      THEN [cache |-> [MC_delete(c, key) EXCEPT !.stats.misses = @ + 1],
            result |-> Undefined]
      ELSE [cache |-> [c EXCEPT !.stats.hits = @ + 1],
            result |-> MapGet(c.entries, key).value]

\* has(key) that counts a key it does not find as a miss
MC_has_Counting(c, key, n) ==
  IF ~MapHas(c.entries, key)
    THEN [cache |-> [c EXCEPT !.stats.misses = @ + 1], result |-> Bool(FALSE)]
    ELSE IF Expired(MapGet(c.entries, key).expiry, n)
      THEN [cache |-> [MC_delete(c, key) EXCEPT !.stats.misses = @ + 1],
            result |-> Bool(FALSE)]
      ELSE [cache |-> c, result |-> Bool(TRUE)]

\* has(key) at time n
MC_has(c, key, n) ==
  IF ~MapHas(c.entries, key)
    THEN [cache |-> c, result |-> Bool(FALSE)]
    ELSE IF Expired(MapGet(c.entries, key).expiry, n)
      THEN [cache |-> MC_delete(c, key), result |-> Bool(FALSE)]
      ELSE [cache |-> c, result |-> Bool(TRUE)]

\* clear()
MC_clear(c) == [c EXCEPT !.entries = <<>>, !.stats = ZeroStats]

\* cleanup() whose loop ends at the first entry it deletes
MC_cleanup_FirstOnly(c, n) ==
  LET expired == {j \in DOMAIN c.entries : Expired(c.entries[j].expiry, n)}
  IN IF expired = {} THEN c
     ELSE LET first == CHOOSE j \in expired : \A k \in expired : j <= k
          IN [c EXCEPT !.entries = MapDelete(c.entries, c.entries[first].key),
                       !.stats.deletes = @ + 1]

\* cleanup() at time n: delete() of every expired key
MC_cleanup(c, n) ==
  LET gone == {c.entries[i].key : i \in {j \in DOMAIN c.entries :
                                           Expired(c.entries[j].expiry, n)}}
  IN [c EXCEPT !.entries = SelectSeq(c.entries, LAMBDA e : e.key \notin gone),
               !.stats.deletes = @ + Cardinality(gone)]

\* getStats().size
MC_size(c) == Len(c.entries)

----------------------------------------------------------------------------
(* SpecCache: a MemoryCache({maxSize: CacheMaxSize, ttl: CacheTtl}) and    *)
(* its callers.  ret names the call of the last step.                      *)

\* The keys of the Maps
MapKeys(entries) == {entries[i].key : i \in DOMAIN entries}

\* What a caller sees of a call: its name, its key, what it returned (or
\* threw), and the keys it took out of the cache.  expect is, for a get of
\* SpecKV, the value the key was last set to (see hist).
Ret(op, key, result, c, c2) ==
  [op |-> op, key |-> key, result |-> result,
   removed |-> MapKeys(c.entries) \ MapKeys(c2.entries),
   expect |-> NoValue]

NoRet ==
  [op |-> "none", key |-> "", result |-> Undefined, removed |-> {},
   expect |-> NoValue]

\* The stats count calls without bound; the model stops counting calls at
\* MaxCalls.
CanCount(c) == c.stats.hits + c.stats.misses + c.stats.sets < MaxCalls

CacheSet(key, value, ttlArg) ==
  /\ CanCount(cache)
  /\ cache' = MC_set(cache, key, value, ttlArg, now)
  /\ ret' = Ret("set", key, Bool(TRUE), cache, cache')
  /\ UNCHANGED <<now, kvVars, docVars>>

CacheGet(key) ==
  /\ CanCount(cache)
  /\ cache' = MC_get(cache, key, now).cache
  /\ ret' = Ret("get", key, MC_get(cache, key, now).result, cache, cache')
  /\ UNCHANGED <<now, kvVars, docVars>>

CacheHas(key) ==
  /\ cache' = MC_has(cache, key, now).cache
  /\ ret' = Ret("has", key, MC_has(cache, key, now).result, cache, cache')
  /\ UNCHANGED <<now, kvVars, docVars>>

CacheDelete(key) ==
  /\ cache' = MC_delete(cache, key)
  /\ ret' = Ret("delete", key, Bool(MapHas(cache.entries, key)), cache, cache')
  /\ UNCHANGED <<now, kvVars, docVars>>

CacheCleanup ==
  /\ cache' = MC_cleanup(cache, now)
  /\ ret' = Ret("cleanup", "", Undefined, cache, cache')
  /\ UNCHANGED <<now, kvVars, docVars>>

CacheClear ==
  /\ cache' = MC_clear(cache)
  /\ ret' = Ret("clear", "", Undefined, cache, cache')
  /\ UNCHANGED <<now, kvVars, docVars>>

\* A millisecond passes.
Tick ==
  /\ now < MaxTime
  /\ now' = now + 1
  /\ ret' = Ret("tick", "", Undefined, cache, cache)
  /\ UNCHANGED <<cache, kvVars, docVars>>

InitIdle ==
  /\ now = 0
  /\ ret = NoRet
  /\ kvFiles = <<>>
  /\ connected = FALSE
  /\ pending = <<>>
  /\ hist = [settled |-> <<>>]
  /\ collections = {}
  /\ listFile = {}
  /\ dirs = <<>>
  /\ registry = {}
  /\ genCount = 0
  /\ docCalls = 0

InitCache ==
  /\ InitIdle
  /\ cache = MemoryCache(CacheMaxSize, CacheTtl)

NextCache ==
  \/ \E key \in CacheKeys, value \in CacheValues, ttlArg \in TtlArgs :
       CacheSet(key, value, ttlArg)
  \/ \E key \in CacheKeys : CacheGet(key)
  \/ \E key \in CacheKeys : CacheHas(key)
  \/ \E key \in CacheKeys : CacheDelete(key)
  \/ CacheCleanup
  \/ CacheClear
  \/ Tick

SpecCache == InitCache /\ [][NextCache]_vars

----------------------------------------------------------------------------
(* Properties of the cache, under SpecCache.                               *)

\* The entry of key, when the Maps hold one
HasEntry(c, key) == MapHas(c.entries, key)
EntryOf(c, key) == MapGet(c.entries, key)

\* C3: a cache read never returns an expired entry: get(key) returns absent
\* and has(key) returns false whenever the entry's expires_at has passed,
\* and that access removes the entry from the cache.
C3_NoExpiredRead ==
  [][\A key \in CacheKeys :
       (/\ ret'.op \in {"get", "has"}
        /\ ret'.key = key
        /\ HasEntry(cache, key)
        /\ EntryOf(cache, key).expiry < now)
       => (/\ ret'.result = IF ret'.op = "get" THEN Undefined ELSE Bool(FALSE)
           /\ ~HasEntry(cache', key))]_vars

\* A get or has has just met an expired entry and removed it.
C3_Witness ==
  /\ ret.op \in {"get", "has"}
  /\ ret.key \in ret.removed
  /\ ret.result \in {Undefined, Bool(FALSE)}

\* C4: the number of entries held by the cache never exceeds maxSize,
\* whatever the keys (the empty string included) and the TTLs.
C4_CapacityBound == MC_size(cache) <= cache.maxSize

\* The smallest expires_at among the entries of c
MinExpiry(c) ==
  CHOOSE t \in {c.entries[i].expiry : i \in DOMAIN c.entries} :
    \A i \in DOMAIN c.entries : t <= c.entries[i].expiry

\* C5: a set that inserts a new key into a cache at capacity evicts exactly
\* one entry, one with the smallest expires_at; a set below capacity, or of
\* a key that is present, evicts nothing.
C5_EvictionPolicy ==
  [][ret'.op = "set" =>
       IF MC_size(cache) >= cache.maxSize /\ ~HasEntry(cache, ret'.key)
         THEN \E old \in MapKeys(cache.entries) :
                /\ ret'.removed = {old}
                /\ EntryOf(cache, old).expiry = MinExpiry(cache)
         ELSE ret'.removed = {}]_vars

----------------------------------------------------------------------------
(* JSON text.  A file holds the text JSON.stringify made of a value: the   *)
(* text of a value is tagged "json:" with the kind of literal it is.       *)
(* undefined has no text (JSON.stringify returns undefined, which          *)
(* fs.writeFileSync refuses with a TypeError); NaN is written as null.     *)

RECURSIVE JSONstringify(_)
JSONstringify(v) ==
  CASE v.t = "undefined" -> Undefined
    [] v.t = "null" -> [t |-> "json:null", s |-> "", n |-> 0]
    [] v.t = "number" ->
         IF v.s = "NaN" THEN [t |-> "json:null", s |-> "", n |-> 0]
         ELSE [t |-> "json:number", s |-> "", n |-> v.n]
    [] v.t = "string" -> [t |-> "json:string", s |-> v.s, n |-> 0]
    [] v.t = "boolean" -> [t |-> "json:boolean", s |-> "", n |-> v.n]
    [] v.t = "object" ->
         [t |-> "json:object", s |-> "", n |-> 0,
          o |-> [k \in {f \in DOMAIN v.o : v.o[f] # Undefined} |->
                   JSONstringify(v.o[k])]]

RECURSIVE JSONparse(_)
JSONparse(text) ==
  CASE text.t = "json:null" -> Null
    [] text.t = "json:number" -> Num(text.n)
    [] text.t = "json:string" -> Str(text.s)
    [] text.t = "json:boolean" -> Bool(text.n = 1)
    [] text.t = "json:object" ->
         ObjectOf([k \in DOMAIN text.o |-> JSONparse(text.o[k])])

\* The values JSON has: null, numbers (NaN is none), strings, booleans.
JSONSerializable(v) ==
  \/ v.t \in {"null", "string", "boolean"}
  \/ v.t = "number" /\ v.s # "NaN"

----------------------------------------------------------------------------
(* FileStoreAdapter, key/value part.  files is the directory keyvalue/:    *)
(* key -> text of <key>.json.  The keys of the model hold no path          *)
(* separator, so each key names one file of its own.  io is what the file  *)
(* system does with a write: "ok", or "fail" (no such directory, no        *)
(* space, no permission), which the adapter's catch turns into false.      *)
(* Each operator gives the directory afterwards and what the call returns  *)
(* or throws.                                                              *)

MaxPending == 2     \* HyperDB calls in flight at once
MaxKvCalls == 4     \* the set and get calls the cache's stats count, SpecKV
MaxHours == 1       \* how often the cache's default TTL runs out, SpecKV

KvKeys == {"k"}
KvValues == {Num(1), Num(2), Undefined}
IoOutcomes == {"ok", "fail"}

NotConnected == Error("Not connected to FileStore database")

FileExists(files, key) == key \in DOMAIN files

WriteFile(files, key, text) ==
  [k \in DOMAIN files \cup {key} |-> IF k = key THEN text ELSE files[k]]

Unlink(files, key) == [k \in DOMAIN files \ {key} |-> files[k]]

\* async set(key, value)
Adapter_set(files, conn, key, value, io) ==
  IF ~conn THEN [files |-> files, result |-> NotConnected]
  ELSE IF JSONstringify(value) = Undefined \/ io = "fail"
    THEN [files |-> files, result |-> Bool(FALSE)]
    ELSE [files |-> WriteFile(files, key, JSONstringify(value)),
          result |-> Bool(TRUE)]

\* async get(key)
Adapter_get(files, conn, key) ==
  IF ~conn THEN NotConnected
  ELSE IF ~FileExists(files, key) THEN Null
  ELSE JSONparse(files[key])

\* async has(key)
Adapter_has(files, conn, key) ==
  IF ~conn THEN NotConnected ELSE Bool(FileExists(files, key))

\* delete(key) without this._ensureConnected()
Adapter_delete_Unguarded(files, conn, key) ==
  IF ~FileExists(files, key)
    THEN [files |-> files, result |-> Bool(FALSE)]
    ELSE [files |-> Unlink(files, key), result |-> Bool(TRUE)]

\* async delete(key)
Adapter_delete(files, conn, key) ==
  IF ~conn THEN [files |-> files, result |-> NotConnected]
  ELSE IF ~FileExists(files, key)
    THEN [files |-> files, result |-> Bool(FALSE)]
    ELSE [files |-> Unlink(files, key), result |-> Bool(TRUE)]

\* StorageEngine.set / get / has / delete hand the call to the adapter.
Engine_set(files, conn, key, value, io) == Adapter_set(files, conn, key, value, io)
Engine_get(files, conn, key) == Adapter_get(files, conn, key)
Engine_has(files, conn, key) == Adapter_has(files, conn, key)
Engine_delete(files, conn, key) == Adapter_delete(files, conn, key)

----------------------------------------------------------------------------
(* SpecKV: a HyperDB (no security, no sync) over a data directory that an  *)
(* earlier session may have written.  The constructor has run: its cache   *)
(* is new MemoryCache(), and connect() has run to its end inside the       *)
(* constructor's call of _loadInitialData().                               *)
(*                                                                         *)
(* An async method runs up to its first await inside the call; every file  *)
(* operation of the adapter is synchronous, so it happens there.  What     *)
(* follows `await this.storage.<op>(...)` runs later, from the microtask   *)
(* queue.  HyperDB's awaits all sit at the same depth (HyperDB awaits      *)
(* StorageEngine, which awaits the adapter), so the continuations run in   *)
(* the order of the calls: pending is that queue.  hist.settled[key] is    *)
(* the value of the last set of key that returned true, while no set or    *)
(* delete of key has been called since that set was called; it is Absent   *)
(* once a delete of key has returned, while no set or delete of key has    *)
(* been called since that delete was called.  hist.alone[key] is whether   *)
(* the last set or delete of key to be called was a delete called with no  *)
(* other call in flight.                                                   *)

\* What the calls have left of a key that a delete has taken away
Absent == [t |-> "absent", s |-> "", n |-> 0]

Call(op, key, value, result, expect) ==
  [op |-> op, key |-> key, value |-> value, result |-> result,
   expect |-> expect]

CanCall ==
  /\ Len(pending) < MaxPending
  /\ cache.stats.hits + cache.stats.misses + cache.stats.sets < MaxKvCalls

\* HyperDB.set up to its await: the cache, then the file
KvSetCall(key, value, io) ==
  /\ CanCall
  /\ cache' = MC_set(cache, key, value, Undefined, now)
  /\ LET r == Engine_set(kvFiles, connected, key, value, io)
     IN /\ kvFiles' = r.files
        /\ pending' = Append(pending, Call("set", key, value, r.result, NoValue))
  /\ hist' = [hist EXCEPT !.settled[key] = NoValue, !.alone[key] = FALSE]
  /\ UNCHANGED <<now, ret, connected, docVars>>

\* HyperDB.get: a value in the cache is returned at once; otherwise the
\* file is read and the call waits.
KvGetCall(key) ==
  /\ CanCall
  /\ LET g == MC_get(cache, key, now)
     IN /\ cache' = g.cache
        /\ IF g.result # Undefined
             THEN /\ ret' = [Ret("get", key, g.result, cache, cache')
                               EXCEPT !.expect = hist.settled[key]]
                  /\ UNCHANGED pending
             ELSE /\ pending' = Append(pending,
                       Call("get", key, Undefined,
                            Engine_get(kvFiles, connected, key),
                            hist.settled[key]))
                  /\ UNCHANGED ret
  /\ UNCHANGED <<now, kvFiles, connected, hist, docVars>>

\* HyperDB.has
KvHasCall(key) ==
  /\ Len(pending) < MaxPending
  /\ LET h == MC_has(cache, key, now)
     IN /\ cache' = h.cache
        /\ IF h.result = Bool(TRUE)
             THEN /\ ret' = [Ret("has", key, Bool(TRUE), cache, cache')
                               EXCEPT !.expect = hist.settled[key]]
                  /\ UNCHANGED pending
             ELSE /\ pending' = Append(pending,
                       Call("has", key, Undefined,
                            Engine_has(kvFiles, connected, key),
                            hist.settled[key]))
                  /\ UNCHANGED ret
  /\ UNCHANGED <<now, kvFiles, connected, hist, docVars>>

\* HyperDB.delete up to its await: the cache, then the file
KvDeleteCall(key) ==
  /\ Len(pending) < MaxPending
  /\ cache' = MC_delete(cache, key)
  /\ LET r == Engine_delete(kvFiles, connected, key)
     IN /\ kvFiles' = r.files
        /\ pending' = Append(pending, Call("delete", key, Undefined, r.result, NoValue))
  /\ hist' = [hist EXCEPT !.settled[key] = NoValue,
                          !.alone[key] = (pending = <<>>)]
  /\ UNCHANGED <<now, ret, connected, docVars>>

\* HyperDB.close up to its await: StorageEngine.close, adapter.close
KvCloseCall ==
  /\ Len(pending) < MaxPending
  /\ connected
  /\ connected' = FALSE
  /\ pending' = Append(pending, Call("close", "", Undefined, Undefined, NoValue))
  /\ UNCHANGED <<now, cache, ret, kvFiles, hist, docVars>>

\* Whether a set or a delete of key is among the calls
Writes(calls, key) ==
  \E i \in DOMAIN calls : calls[i].key = key /\ calls[i].op \in {"set", "delete"}

\* HyperDB.get after its await, with the cache left as it is
HyperDB_get_NoWriteBack(c, key, value, n) == c

\* HyperDB.get after its await (no security: decryptedValue is value):
\* if (decryptedValue !== null) this.cache.set(key, decryptedValue)
HyperDB_get_WriteBack(c, key, value, n) ==
  IF value # Null THEN MC_set(c, key, value, Undefined, n) ELSE c

\* The oldest suspended call runs from its await to its end.
KvResume ==
  /\ pending # <<>>
  /\ LET call == Head(pending)
         rest == Tail(pending)
         thrown == call.result.t = "error"
     IN /\ pending' = rest
        /\ cache' =
             CASE call.op = "get" /\ ~thrown ->
                    HyperDB_get_WriteBack(cache, call.key, call.result, now)
               [] call.op = "close" -> MC_clear(cache)
               [] OTHER -> cache
        /\ hist' =
             IF call.op = "set" /\ call.result = Bool(TRUE) /\ ~Writes(rest, call.key)
               THEN [hist EXCEPT !.settled[call.key] = call.value]
               ELSE IF call.op = "delete" /\ ~thrown /\ ~Writes(rest, call.key)
                 THEN [hist EXCEPT !.settled[call.key] = Absent]
                 ELSE hist
        /\ ret' = [Ret(call.op, call.key, call.result, cache, cache')
                     EXCEPT !.expect =
                       IF /\ call.op \in {"get", "has"}
                          /\ hist.settled[call.key] = call.expect
                         THEN call.expect ELSE NoValue]
  /\ UNCHANGED <<now, kvFiles, connected, docVars>>

\* More than the cache's default TTL passes, with no call suspended.
HourPasses ==
  /\ pending = <<>>
  /\ now < MaxHours * (DefaultTtl + 1)
  /\ now' = now + DefaultTtl + 1
  /\ ret' = Ret("tick", "", Undefined, cache, cache)
  /\ UNCHANGED <<cache, kvVars, docVars>>

\* The texts an earlier session can have left in keyvalue/
KvTexts == {JSONstringify(v) : v \in {w \in KvValues : JSONSerializable(w)}}

InitKV ==
  /\ now = 0
  /\ ret = NoRet
  /\ cache = MemoryCache(0, 0)
  /\ \E keys \in SUBSET KvKeys : kvFiles \in [keys -> KvTexts]
  /\ connected = TRUE
  /\ pending = <<>>
  /\ hist = [settled |-> [key \in KvKeys |-> NoValue],
             alone |-> [key \in KvKeys |-> FALSE]]
  /\ collections = {}
  /\ listFile = {}
  /\ dirs = <<>>
  /\ registry = {}
  /\ genCount = 0
  /\ docCalls = 0

NextKV ==
  \/ \E key \in KvKeys, value \in KvValues, io \in IoOutcomes :
       KvSetCall(key, value, io)
  \/ \E key \in KvKeys : KvGetCall(key)
  \/ \E key \in KvKeys : KvHasCall(key)
  \/ \E key \in KvKeys : KvDeleteCall(key)
  \/ KvCloseCall
  \/ KvResume
  \/ HourPasses

SpecKV == InitKV /\ [][NextKV]_vars

----------------------------------------------------------------------------
(* Properties of HyperDB's key/value calls, under SpecKV.                  *)

\* C1: once set(key, value) has returned success, a get(key) called while
\* no later set or delete of key has been called returns value (on a
\* database that is open: a get that throws not-connected is left aside).
C1_RoundTrip ==
  (/\ ret.op = "get"
   /\ ret.expect # NoValue
   /\ JSONSerializable(ret.expect)
   /\ ret.result # NotConnected)
    => ret.result = ret.expect

\* The call that a step has just suspended, if it has
Suspends(calls, calls2) == Len(calls2) = Len(calls) + 1
Suspended(calls2) == calls2[Len(calls2)]

\* C13: once delete(key) has returned, a has(key) called while no later set
\* or delete of key has been called returns false and a get(key) returns
\* null; a delete of a key that has no stored entry returns false and
\* changes no stored entry.
C13_DeleteRemoves ==
  [][/\ (ret'.expect = Absent /\ ret'.result.t # "error")
          => ret'.result = IF ret'.op = "has" THEN Bool(FALSE) ELSE Null
     /\ (/\ Suspends(pending, pending')
         /\ Suspended(pending').op = "delete"
         /\ connected
         /\ ~FileExists(kvFiles, Suspended(pending').key))
          => /\ Suspended(pending').result = Bool(FALSE)
             /\ kvFiles' = kvFiles]_vars

\* C2: HyperDB.set updates the cache entry of its key only once the storage
\* write has succeeded; a set whose storage write returns false or throws
\* leaves the cache entry of its key as it was.
C2_CacheAfterWrite ==
  [][(/\ Suspends(pending, pending')
      /\ Suspended(pending').op = "set"
      /\ Suspended(pending').result # Bool(TRUE))
     => LET key == Suspended(pending').key
        IN /\ HasEntry(cache', key) = HasEntry(cache, key)
           /\ HasEntry(cache, key) => EntryOf(cache', key) = EntryOf(cache, key)]_vars

----------------------------------------------------------------------------
(* Collection names and documents.  A name is the sequence of its          *)
(* characters.  A document (and a query, and an update) is a function      *)
(* from its field names to JavaScript values; a field it does not have     *)
(* reads as undefined.  A key with a dot names a path: the dotted keys of *)
(* the model are two names of PathNames joined by a dot.                   *)

MaxGen == 1          \* ids generateId() hands out
MaxDocCalls == 2     \* calls that write documents or collections, SpecDocs
MaxDocTime == 1      \* the clock of SpecDocs runs from 0 to MaxDocTime

UpperCase ==
  <<"A", "B", "C", "D", "E", "F", "G", "H", "I", "J", "K", "L", "M",
    "N", "O", "P", "Q", "R", "S", "T", "U", "V", "W", "X", "Y", "Z">>
LowerCase ==
  <<"a", "b", "c", "d", "e", "f", "g", "h", "i", "j", "k", "l", "m",
    "n", "o", "p", "q", "r", "s", "t", "u", "v", "w", "x", "y", "z">>
Digits == {"0", "1", "2", "3", "4", "5", "6", "7", "8", "9"}

\* ch.toLowerCase()
ToLowerCase(ch) ==
  IF \E i \in DOMAIN UpperCase : UpperCase[i] = ch
    THEN LowerCase[CHOOSE i \in DOMAIN UpperCase : UpperCase[i] = ch]
    ELSE ch

\* [a-zA-Z0-9_-]
IsNameChar(ch) ==
  \/ \E i \in DOMAIN UpperCase : ch \in {UpperCase[i], LowerCase[i]}
  \/ ch \in Digits \cup {"_", "-"}

\* normalizeName(name)
NormalizeName(name) ==
  [i \in DOMAIN name |->
     ToLowerCase(IF IsNameChar(name[i]) THEN name[i] ELSE "_")]

\* generateId(): an id no earlier call has given
GenerateId(count) == "g" \o ToString(count + 1)

\* An object or an array, as a value that is returned
Object == [t |-> "object", s |-> "", n |-> 0]

\* obj[key]
Field(obj, key) == IF key \in DOMAIN obj THEN obj[key] ELSE Undefined

\* obj[key] = value
Put(obj, key, value) ==
  [k \in DOMAIN obj \cup {key} |-> IF k = key THEN value ELSE obj[k]]

\* { ...doc, ...update }
Spread(doc, update) ==
  [k \in DOMAIN doc \cup DOMAIN update |->
     IF k \in DOMAIN update THEN update[k] ELSE doc[k]]

\* JSON.stringify(doc): a field that is undefined is left out
JSONstringifyDoc(doc) ==
  [k \in {f \in DOMAIN doc : doc[f] # Undefined} |-> JSONstringify(doc[k])]

\* JSON.parse(docData)
JSONparseDoc(text) == [k \in DOMAIN text |-> JSONparse(text[k])]

\* The names between the dots of the dotted keys of the model
PathNames == {"a", "b", "c"}

RECURSIVE Join(_)
\* parts.join('.')
Join(parts) ==
  IF Len(parts) = 1 THEN parts[1]
  ELSE parts[1] \o "." \o Join(Tail(parts))

\* key.includes('.'): the dotted keys of the model have two or three parts
IncludesDot(key) ==
  \E parts \in (PathNames \X PathNames) \cup
               (PathNames \X PathNames \X PathNames) : Join(parts) = key

\* key.split('.')
Split(key) ==
  IF IncludesDot(key)
    THEN CHOOSE parts \in (PathNames \X PathNames) \cup
                          (PathNames \X PathNames \X PathNames) :
           Join(parts) = key
    ELSE <<key>>

\* value[part]: a field of an object, undefined on a number, a boolean and
\* (for the names of the model) a string
Property(value, part) ==
  IF value.t = "object" THEN Field(value.o, part) ELSE Undefined

RECURSIVE WalkFrom(_, _, _)
\* The loop of matches over parts, from the i-th part on: what value is in
\* the end, or that the loop returned false
WalkFrom(value, parts, i) ==
  IF i > Len(parts) THEN [returned |-> FALSE, value |-> value]
  ELSE IF value = Undefined \/ value = Null
    THEN [returned |-> TRUE, value |-> Undefined]
    ELSE WalkFrom(Property(value, parts[i]), parts, i + 1)

\* The body of the loop of matches for one key: TRUE unless it returns false
MatchesKey(obj, query, key) ==
  IF IncludesDot(key)
    THEN LET walked == WalkFrom(ObjectOf(obj), Split(key), 1)
         IN ~walked.returned /\ StrictEq(walked.value, query[key])
    ELSE StrictEq(query[key], Field(obj, key))

\* Some key of the query is enough
Matches_AnyKey(obj, query) ==
  \E key \in DOMAIN query : MatchesKey(obj, query, key)

\* matches(obj, query)
Matches(obj, query) ==
  \A key \in DOMAIN query : MatchesKey(obj, query, key)

\* `${id}`
TemplateString(v) ==
  CASE v.t = "string" -> v.s
    [] v.t = "number" -> IF v.s = "NaN" THEN "NaN" ELSE ToString(v.n)
    [] v.t = "boolean" -> IF v.n = 1 THEN "true" ELSE "false"
    [] OTHER -> v.t

\* `${id}.json`
FileName(id) == TemplateString(id) \o ".json"

\* The file names a collection's directory can hold in the model, in the
\* order fs.readdirSync lists them.
FileOrder ==
  <<"a.json", "b.json">> \o
    [k \in 1..MaxGen |-> FileName(Str(GenerateId(k - 1)))]

\* fs.readdirSync(collectionDir)
ReadDir(dir) == SelectSeq(FileOrder, LAMBDA file : file \in DOMAIN dir)

\* fs.mkdirSync(collectionDir)
Mkdir(allDirs, name) == WriteFile(allDirs, name, <<>>)

----------------------------------------------------------------------------
(* FileStoreAdapter, document part.  fs holds what the adapter works on:   *)
(* its Set collections, the file collections.json (listFile) and the       *)
(* directories under collections/ (dirs: directory -> file name -> text).  *)
(* Each operator gives fs afterwards, what the call returns or throws      *)
(* (result), and the documents it returns (found).                         *)

Throws(fs, error) == [fs |-> fs, result |-> error, found |-> <<>>]
Returns(fs, value) == [fs |-> fs, result |-> value, found |-> <<>>]
ReturnsDocs(fs, docs) == [fs |-> fs, result |-> Object, found |-> docs]

\* createCollection(name) that makes the directory anew, without the test
\* fs.existsSync(collectionDir)
Adapter_createCollection_Anew(fs, conn, name) ==
  IF ~conn THEN Throws(fs, NotConnected)
  ELSE
    LET normalizedName == NormalizeName(name)
    IN Returns([collections |-> fs.collections \cup {normalizedName},
                listFile |-> fs.collections \cup {normalizedName},
                dirs |-> Mkdir(fs.dirs, normalizedName)],
               Bool(TRUE))

\* async createCollection(name)
Adapter_createCollection(fs, conn, name) ==
  IF ~conn THEN Throws(fs, NotConnected)
  ELSE
    LET normalizedName == NormalizeName(name)
        made == IF normalizedName \in DOMAIN fs.dirs THEN fs.dirs
                ELSE Mkdir(fs.dirs, normalizedName)
    IN IF normalizedName \in fs.collections
         THEN Returns([fs EXCEPT !.dirs = made], Bool(TRUE))
         ELSE Returns([collections |-> fs.collections \cup {normalizedName},
                       listFile |-> fs.collections \cup {normalizedName},
                       dirs |-> made],
                      Bool(TRUE))

\* Whether insert asks generateId() for an id
NeedsId(document) ==
  ~Truthy(Field(document, "id")) /\ ~Truthy(Field(document, "_id"))

\* async insert(collection, document); n is Date.now(), count the ids
\* generateId() has given so far
Adapter_insert(fs, conn, collection, document, n, count) ==
  IF ~conn THEN Throws(fs, NotConnected)
  ELSE
    LET normalizedName == NormalizeName(collection)
        ensured == Adapter_createCollection(fs, conn, normalizedName).fs
        docWithId ==
          IF NeedsId(document)
            THEN Put(document, "id", Str(GenerateId(count)))
            ELSE document
        id == Or(Field(docWithId, "id"), Field(docWithId, "_id"))
        stamped == Put(Put(docWithId, "created_at", Num(n)), "updated_at", Num(n))
    IN Returns([ensured EXCEPT !.dirs[normalizedName] =
                  WriteFile(@, FileName(id), JSONstringifyDoc(stamped))],
               Bool(TRUE))

\* The documents of a directory, in readdir order
ReadAll(dir) ==
  [i \in DOMAIN ReadDir(dir) |-> JSONparseDoc(dir[ReadDir(dir)[i]])]

\* async find(collection, query)
Adapter_find(fs, conn, collection, query) ==
  IF ~conn THEN Throws(fs, NotConnected)
  ELSE
    LET normalizedName == NormalizeName(collection)
    IN IF normalizedName \notin fs.collections THEN ReturnsDocs(fs, <<>>)
       ELSE IF normalizedName \notin DOMAIN fs.dirs THEN ReturnsDocs(fs, <<>>)
       ELSE ReturnsDocs(fs,
              SelectSeq(ReadAll(fs.dirs[normalizedName]),
                        LAMBDA doc : DOMAIN query = {} \/ Matches(doc, query)))

\* async findOne(collection, query)
Adapter_findOne(fs, conn, collection, query) ==
  IF ~conn THEN Throws(fs, NotConnected)
  ELSE
    LET normalizedName == NormalizeName(collection)
        id == Or(Field(query, "id"), Field(query, "_id"))
    IN IF normalizedName \notin fs.collections THEN Returns(fs, Null)
       ELSE IF normalizedName \notin DOMAIN fs.dirs THEN Returns(fs, Null)
       ELSE IF Truthy(id)
         THEN IF FileExists(fs.dirs[normalizedName], FileName(id))
                THEN ReturnsDocs(fs,
                       <<JSONparseDoc(fs.dirs[normalizedName][FileName(id)])>>)
                ELSE Returns(fs, Null)
         ELSE LET hits == SelectSeq(ReadAll(fs.dirs[normalizedName]),
                                    LAMBDA doc : Matches(doc, query))
              IN IF hits = <<>> THEN Returns(fs, Null)
                 ELSE ReturnsDocs(fs, <<hits[1]>>)

RECURSIVE UpdateEach(_, _, _, _, _)
\* for (const doc of docs) { ... fs.writeFileSync(docPath, ...) }, from the
\* i-th document on
UpdateEach(dir, docs, i, update, n) ==
  IF i > Len(docs) THEN dir
  ELSE
    LET doc == docs[i]
        id == Or(Field(doc, "id"), Field(doc, "_id"))
        updatedDoc == Put(Spread(doc, update), "updated_at", Num(n))
    IN UpdateEach(WriteFile(dir, FileName(id), JSONstringifyDoc(updatedDoc)),
                  docs, i + 1, update, n)

\* async update(collection, query, update)
Adapter_update(fs, conn, collection, query, update, n) ==
  IF ~conn THEN Throws(fs, NotConnected)
  ELSE
    LET normalizedName == NormalizeName(collection)
        docs == Adapter_find(fs, conn, collection, query).found
    IN IF normalizedName \notin fs.collections THEN Returns(fs, Num(0))
       ELSE IF docs = <<>> THEN Returns(fs, Num(0))
       ELSE Returns([fs EXCEPT !.dirs[normalizedName] =
                       UpdateEach(@, docs, 1, update, n)],
                    Num(Len(docs)))

RECURSIVE DeleteEach(_, _, _)
\* for (const doc of docs) { if (fs.existsSync(docPath)) fs.unlinkSync }:
\* the directory and deletedCount after the documents from the i-th on
DeleteEach(state, docs, i) ==
  IF i > Len(docs) THEN state
  ELSE
    LET file == FileName(Or(Field(docs[i], "id"), Field(docs[i], "_id")))
    IN DeleteEach(IF FileExists(state.dir, file)
                    THEN [dir |-> Unlink(state.dir, file),
                          deletedCount |-> state.deletedCount + 1]
                    ELSE state,
                  docs, i + 1)

\* async deleteFrom(collection, query)
Adapter_deleteFrom(fs, conn, collection, query) ==
  IF ~conn THEN Throws(fs, NotConnected)
  ELSE
    LET normalizedName == NormalizeName(collection)
        id == Or(Field(query, "id"), Field(query, "_id"))
        docs == Adapter_find(fs, conn, collection, query).found
        deleted == DeleteEach([dir |-> fs.dirs[normalizedName], deletedCount |-> 0],
                              docs, 1)
    IN IF normalizedName \notin fs.collections THEN Returns(fs, Num(0))
       ELSE IF normalizedName \notin DOMAIN fs.dirs THEN Returns(fs, Num(0))
       ELSE IF Truthy(id)
         THEN IF FileExists(fs.dirs[normalizedName], FileName(id))
                THEN Returns([fs EXCEPT !.dirs[normalizedName] =
                                Unlink(@, FileName(id))], Num(1))
                ELSE Returns(fs, Num(0))
         ELSE IF docs = <<>> THEN Returns(fs, Num(0))
         ELSE Returns([fs EXCEPT !.dirs[normalizedName] = deleted.dir],
                      Num(deleted.deletedCount))

----------------------------------------------------------------------------
(* StorageEngine, document part.  reg is this.collections, the engine's    *)
(* own registry, keyed by the names as the callers gave them.  Each        *)
(* operator gives what the adapter's operators give, and the registry      *)
(* afterwards.                                                             *)

Threw(r) == r.result.t = "error"

WithRegistry(r, reg) ==
  [fs |-> r.fs, registry |-> reg, result |-> r.result, found |-> r.found]

\* async createCollection(name)
Engine_createCollection(fs, reg, conn, name) ==
  LET r == Adapter_createCollection(fs, conn, name)
  IN WithRegistry(r, IF ~Threw(r) /\ Truthy(r.result)
                       THEN reg \cup {name} ELSE reg)

\* insert(collection, document) without the createCollection of a name
\* that this.collections does not hold
Engine_insert_NoCreate(fs, reg, conn, collection, document, n, count) ==
  WithRegistry(Adapter_insert(fs, conn, collection, document, n, count), reg)

\* async insert(collection, document)
Engine_insert(fs, reg, conn, collection, document, n, count) ==
  LET created == IF collection \notin reg
                   THEN Engine_createCollection(fs, reg, conn, collection)
                   ELSE WithRegistry(Returns(fs, Bool(TRUE)), reg)
  IN IF Threw(created) THEN created
     ELSE WithRegistry(Adapter_insert(created.fs, conn, collection, document,
                                      n, count),
                       created.registry)

\* async findOne(collection, query)
Engine_findOne(fs, reg, conn, collection, query) ==
  IF collection \notin reg THEN WithRegistry(Returns(fs, Null), reg)
  ELSE WithRegistry(Adapter_findOne(fs, conn, collection, query), reg)

\* async find(collection, query)
Engine_find(fs, reg, conn, collection, query) ==
  IF collection \notin reg THEN WithRegistry(ReturnsDocs(fs, <<>>), reg)
  ELSE WithRegistry(Adapter_find(fs, conn, collection, query), reg)

\* async update(collection, query, update)
Engine_update(fs, reg, conn, collection, query, update, n) ==
  IF collection \notin reg THEN WithRegistry(Returns(fs, Num(0)), reg)
  ELSE WithRegistry(Adapter_update(fs, conn, collection, query, update, n), reg)

\* deleteFrom(collection, query) without the test of this.collections
Engine_deleteFrom_Unchecked(fs, reg, conn, collection, query) ==
  WithRegistry(Adapter_deleteFrom(fs, conn, collection, query), reg)

\* async deleteFrom(collection, query)
Engine_deleteFrom(fs, reg, conn, collection, query) ==
  IF collection \notin reg THEN WithRegistry(Returns(fs, Num(0)), reg)
  ELSE WithRegistry(Adapter_deleteFrom(fs, conn, collection, query), reg)

----------------------------------------------------------------------------
(* SpecDocs: a StorageEngine over a FileStoreAdapter, initialize() done,   *)
(* on a data directory that is empty or holds one inserted document.  Its  *)
(* callers await each call before they make the next, so each step is one  *)
(* call from its start to its return.  DocsReopen is a later session: a    *)
(* new engine and adapter over the same directory, run up to the end of    *)
(* initialize().                                                           *)

CollectionNames == {<<"u">>, <<"U">>}

Doc1(f1, v1) == [k \in {f1} |-> v1]
Doc2(f1, v1, f2, v2) == Put(Doc1(f1, v1), f2, v2)
EmptyQuery == [k \in {} |-> Undefined]

InsertDocs ==
  {Doc2("id", Str("a"), "x", Num(1)), Doc1("id", Str("a")),
   Doc2("id", Str("b"), "x", Num(1)), Doc2("_id", Str("a"), "x", Num(2)),
   Doc1("x", Num(1)),
   Doc2("id", Str("b"), "a", ObjectOf(Doc2("b", Num(1), "c", Num(1))))}
Queries ==
  {EmptyQuery, Doc1("id", Str("a")), Doc1("x", Num(1)),
   Doc2("id", Str("a"), "x", Num(2))}
Updates == {Doc1("x", Num(2)), Doc1("id", Str("b")), Doc1("a.b", Num(2))}

\* What the adapter works on, in the variables
Fs == [collections |-> collections, listFile |-> listFile, dirs |-> dirs]

\* What a caller sees of a document call: its name and arguments (document
\* is the document of an insert, the update of an update), the time, what
\* it returned or threw, and the documents it returned.
DocRet(op, collection, query, document, r) ==
  [op |-> op, collection |-> collection, query |-> query,
   document |-> document, at |-> now, result |-> r.result, found |-> r.found]

\* The variables after a call that gave r
DocCall(op, collection, query, document, r) ==
  /\ collections' = r.fs.collections
  /\ listFile' = r.fs.listFile
  /\ dirs' = r.fs.dirs
  /\ registry' = r.registry
  /\ ret' = DocRet(op, collection, query, document, r)
  /\ UNCHANGED <<now, cache, kvVars, connected>>

CanWrite == docCalls < MaxDocCalls

DocsCreateCollection(name) ==
  /\ CanWrite
  /\ docCalls' = docCalls + 1
  /\ DocCall("createCollection", name, EmptyQuery, EmptyQuery,
             Engine_createCollection(Fs, registry, connected, name))
  /\ UNCHANGED genCount

DocsInsert(collection, document) ==
  /\ CanWrite
  /\ NeedsId(document) => genCount < MaxGen
  /\ docCalls' = docCalls + 1
  /\ genCount' = IF NeedsId(document) /\ connected
                   THEN genCount + 1 ELSE genCount
  /\ DocCall("insert", collection, EmptyQuery, document,
             Engine_insert(Fs, registry, connected, collection, document,
                           now, genCount))

DocsFindOne(collection, query) ==
  /\ DocCall("findOne", collection, query, EmptyQuery,
             Engine_findOne(Fs, registry, connected, collection, query))
  /\ UNCHANGED <<genCount, docCalls>>

DocsFind(collection, query) ==
  /\ DocCall("find", collection, query, EmptyQuery,
             Engine_find(Fs, registry, connected, collection, query))
  /\ UNCHANGED <<genCount, docCalls>>

DocsUpdate(collection, query, update) ==
  /\ CanWrite
  /\ docCalls' = docCalls + 1
  /\ DocCall("update", collection, query, update,
             Engine_update(Fs, registry, connected, collection, query,
                           update, now))
  /\ UNCHANGED genCount

DocsDeleteFrom(collection, query) ==
  /\ CanWrite
  /\ docCalls' = docCalls + 1
  /\ DocCall("deleteFrom", collection, query, EmptyQuery,
             Engine_deleteFrom(Fs, registry, connected, collection, query))
  /\ UNCHANGED genCount

NoDocRet ==
  [op |-> "none", collection |-> <<>>, query |-> EmptyQuery,
   document |-> EmptyQuery, at |-> 0, result |-> Undefined, found |-> <<>>]

\* StorageEngine.close()
DocsClose ==
  /\ connected
  /\ connected' = FALSE
  /\ registry' = {}
  /\ ret' = [NoDocRet EXCEPT !.op = "close", !.at = now]
  /\ UNCHANGED <<now, cache, kvFiles, pending, hist, collections, listFile,
                 dirs, genCount, docCalls>>

\* new StorageEngine(config) and initialize(): connect() reads
\* collections.json and makes the directories that are missing; the
\* registry takes the names getCollections() gives.
DocsReopen ==
  /\ ~connected
  /\ connected' = TRUE
  /\ collections' = listFile
  /\ dirs' = [d \in DOMAIN dirs \cup {NormalizeName(c) : c \in listFile} |->
                IF d \in DOMAIN dirs THEN dirs[d] ELSE <<>>]
  /\ registry' = listFile
  /\ ret' = [NoDocRet EXCEPT !.op = "initialize", !.at = now]
  /\ UNCHANGED <<now, cache, kvFiles, pending, hist, listFile, genCount,
                 docCalls>>

\* A millisecond passes.
DocsTick ==
  /\ now < MaxDocTime
  /\ now' = now + 1
  /\ ret' = [NoDocRet EXCEPT !.op = "tick", !.at = now']
  /\ UNCHANGED <<cache, kvVars, docVars>>

\* The state after `await engine.insert(collection, document)` on the empty
\* directory, at time 0
AfterInsert(collection, document) ==
  Engine_insert([collections |-> {}, listFile |-> {}, dirs |-> <<>>], {},
                TRUE, collection, document, 0, 0)

\* The directory is empty, or holds what an insert has written.
InitDocs ==
  /\ now = 0
  /\ cache = MemoryCache(0, 0)
  /\ ret = NoDocRet
  /\ kvFiles = <<>>
  /\ connected = TRUE
  /\ pending = <<>>
  /\ hist = [settled |-> <<>>]
  /\ genCount = 0
  /\ docCalls = 0
  /\ \/ /\ collections = {}
        /\ listFile = {}
        /\ dirs = <<>>
        /\ registry = {}
     \/ \E r \in {AfterInsert(<<"u">>, Doc2("id", Str("a"), "x", Num(1)))} :
          /\ collections = r.fs.collections
          /\ listFile = r.fs.listFile
          /\ dirs = r.fs.dirs
          /\ registry = r.registry

NextDocs ==
  \/ \E name \in CollectionNames : DocsCreateCollection(name)
  \/ \E collection \in CollectionNames, document \in InsertDocs :
       DocsInsert(collection, document)
  \/ \E collection \in CollectionNames, query \in Queries :
       DocsFindOne(collection, query)
  \/ \E collection \in CollectionNames, query \in Queries :
       DocsFind(collection, query)
  \/ \E collection \in CollectionNames, query \in Queries, update \in Updates :
       DocsUpdate(collection, query, update)
  \/ \E collection \in CollectionNames, query \in Queries :
       DocsDeleteFrom(collection, query)
  \/ DocsClose
  \/ DocsReopen
  \/ DocsTick

SpecDocs == InitDocs /\ [][NextDocs]_vars

\* Every file of a collection's directory is one readdir lists
FilesListed ==
  \A d \in DOMAIN dirs : \A file \in DOMAIN dirs[d] :
    \E i \in DOMAIN FileOrder : FileOrder[i] = file

----------------------------------------------------------------------------
(* Properties of the documents, under SpecDocs.  A stored document is a   *)
(* file of its collection's directory; its id is what insert, update and   *)
(* deleteFrom take for it: doc.id || doc._id.                              *)

DocId(doc) == Or(Field(doc, "id"), Field(doc, "_id"))

\* The adapter's state after the step
FsNext == [collections |-> collections', listFile |-> listFile', dirs |-> dirs']

\* The document a file holds
Stored(dir, file) == JSONparseDoc(dir[file])

\* C6: within one collection no two documents share an id: after any
\* sequence of insert, update and deleteFrom calls, find(collection, {})
\* never returns two documents with the same id.
C6_UniqueIds ==
  \A collection \in CollectionNames :
    LET docs == Engine_find(Fs, registry, connected, collection, EmptyQuery).found
    IN \A i, j \in DOMAIN docs : i # j => DocId(docs[i]) # DocId(docs[j])

\* C7: no update changes the id or the _id of a stored document, whatever
\* the update holds.
C7_IdImmutable ==
  [][ret'.op = "update" =>
       \A d \in DOMAIN dirs : \A file \in DOMAIN dirs[d] :
         file \in DOMAIN dirs'[d] =>
           /\ Field(Stored(dirs'[d], file), "id") = Field(Stored(dirs[d], file), "id")
           /\ Field(Stored(dirs'[d], file), "_id") = Field(Stored(dirs[d], file), "_id")]_vars

\* C8: after a successful insert, find(collection, {}) returns the documents
\* it returned before that have another id, unchanged, and the inserted
\* document; when the id was there before, the document with that id holds
\* the fields of the inserted document and the two timestamps only, and
\* find returns as many documents as before.
C8_InsertSemantics ==
  [][(ret'.op = "insert" /\ ret'.result = Bool(TRUE)) =>
       LET before == Adapter_find(Fs, connected, ret'.collection, EmptyQuery).found
           after == Adapter_find(FsNext, connected', ret'.collection, EmptyQuery).found
           given == IF NeedsId(ret'.document)
                      THEN Put(ret'.document, "id", Str(GenerateId(genCount)))
                      ELSE ret'.document
           id == DocId(given)
       IN /\ \A i \in DOMAIN before :
               DocId(before[i]) # id => \E j \in DOMAIN after : after[j] = before[i]
          /\ \E j \in DOMAIN after : DocId(after[j]) = id
          /\ \A j \in DOMAIN after :
               DocId(after[j]) = id =>
                 /\ DOMAIN after[j] = DOMAIN given \cup {"created_at", "updated_at"}
                 /\ \A f \in DOMAIN given : after[j][f] = given[f]
          /\ (\E i \in DOMAIN before : DocId(before[i]) = id)
               => Len(after) = Len(before)]_vars

\* C9: an insert or an update leaves the created_at of every document that
\* was stored before as it was; the document an insert writes and every
\* document an update changes has the current time as its updated_at.
C9_CreatedOnce ==
  [][ret'.op \in {"insert", "update"} =>
       \A d \in DOMAIN dirs : \A file \in DOMAIN dirs[d] :
         file \in DOMAIN dirs'[d] =>
           /\ Field(Stored(dirs'[d], file), "created_at")
                = Field(Stored(dirs[d], file), "created_at")
           /\ dirs'[d][file] # dirs[d][file]
                => Field(Stored(dirs'[d], file), "updated_at") = Num(now)]_vars

\* C11: an update whose key is a dotted path "a.b" sets field b inside the
\* nested object a of each document that matched, keeps the other fields of
\* a, and makes no top-level field named "a.b".
C11_DotPathMerge ==
  [][(ret'.op = "update" /\ ret'.result.t # "error") =>
       \A key \in DOMAIN ret'.document :
         IncludesDot(key) =>
           LET d == NormalizeName(ret'.collection)
               matched == Engine_find(Fs, registry, connected, ret'.collection,
                                      ret'.query).found
               parts == Split(key)
           IN d \in DOMAIN dirs =>
                \A file \in DOMAIN dirs[d] :
                  (\E i \in DOMAIN matched : matched[i] = Stored(dirs[d], file)) =>
                    LET old == Field(Stored(dirs[d], file), parts[1])
                        new == Field(Stored(dirs'[d], file), parts[1])
                    IN /\ key \notin DOMAIN Stored(dirs'[d], file)
                       /\ new.t = "object"
                       /\ Field(new.o, parts[2]) = ret'.document[key]
                       /\ old.t = "object" =>
                            \A f \in DOMAIN old.o \ {parts[2]} :
                              Field(new.o, f) = old.o[f]]_vars

\* C12: deleteFrom removes the documents that find gives for the same
\* collection and query in the state before, and no other; it returns how
\* many they are, and every document it leaves is as before.
C12_DeleteWhatFindFinds ==
  [][(ret'.op = "deleteFrom" /\ ret'.result.t # "error") =>
       LET d == NormalizeName(ret'.collection)
           matched == Engine_find(Fs, registry, connected, ret'.collection,
                                  ret'.query).found
       IN /\ ret'.result = Num(Len(matched))
          /\ d \in DOMAIN dirs =>
               \A file \in DOMAIN dirs[d] :
                 IF \E i \in DOMAIN matched : matched[i] = Stored(dirs[d], file)
                   THEN file \notin DOMAIN dirs'[d]
                   ELSE /\ file \in DOMAIN dirs'[d]
                        /\ dirs'[d][file] = dirs[d][file]]_vars

\* C10: update returns the number of documents that match the query;
\* afterwards each document that matched holds the update's fields, and its
\* other fields (updated_at apart) as before, and every document that did
\* not match is as before.
C10_UpdateSemantics ==
  [][(ret'.op = "update" /\ ret'.result.t # "error") =>
       LET d == NormalizeName(ret'.collection)
           matched == Engine_find(Fs, registry, connected, ret'.collection,
                                  ret'.query).found
           update == ret'.document
       IN /\ ret'.result = Num(Len(matched))
          /\ d \in DOMAIN dirs =>
               \A file \in DOMAIN dirs[d] :
                 LET old == Stored(dirs[d], file)
                     new == Stored(dirs'[d], file)
                 IN /\ file \in DOMAIN dirs'[d]
                    /\ IF \E i \in DOMAIN matched : matched[i] = old
                         THEN /\ \A f \in DOMAIN update : Field(new, f) = update[f]
                              /\ \A f \in DOMAIN old \ (DOMAIN update \cup {"updated_at"}) :
                                   Field(new, f) = old[f]
                         ELSE new = old]_vars

\* C15: the normalized name is the sole identity of a collection: after a
\* successful insert through a name, find and findOne through every name
\* with the same normalized name return the inserted document, and update
\* and deleteFrom through it act on that document.
C15_NormalizedNameIdentity ==
  [][(ret'.op = "insert" /\ ret'.result = Bool(TRUE)) =>
       \A n2 \in CollectionNames :
         NormalizeName(n2) = NormalizeName(ret'.collection) =>
           LET id == IF NeedsId(ret'.document)
                       THEN Str(GenerateId(genCount))
                       ELSE DocId(ret'.document)
               byId == Doc1(IF Truthy(Field(ret'.document, "id"))
                                 \/ NeedsId(ret'.document)
                              THEN "id" ELSE "_id", id)
               found == Engine_find(FsNext, registry', connected', n2,
                                    EmptyQuery).found
           IN /\ \E i \in DOMAIN found : DocId(found[i]) = id
              /\ LET one == Engine_findOne(FsNext, registry', connected', n2,
                                           byId)
                 IN one.result # Null /\ DocId(one.found[1]) = id
              /\ Engine_update(FsNext, registry', connected', n2, byId,
                               Doc1("x", Num(2)), now).result # Num(0)
              /\ Engine_deleteFrom(FsNext, registry', connected', n2,
                                   byId).result # Num(0)]_vars

----------------------------------------------------------------------------
(* SpecAdapter: a FileStoreAdapter driven directly through its methods,    *)
(* each call awaited before the next, from new FileStoreAdapter(config)    *)
(* on a data directory that an earlier session may have written.           *)

RECURSIVE NameText(_)
\* The name as a string
NameText(name) ==
  IF name = <<>> THEN "" ELSE Head(name) \o NameText(Tail(name))

RECURSIVE NamesOf(_)
\* Array.from(this.collections).map(name => ({ name }))
NamesOf(names) ==
  IF names = {} THEN <<>>
  ELSE LET name == CHOOSE n \in names : TRUE
       IN <<Doc1("name", Str(NameText(name)))>> \o NamesOf(names \ {name})

\* async getCollections()
Adapter_getCollections(fs, conn) ==
  IF ~conn THEN Throws(fs, NotConnected)
  ELSE ReturnsDocs(fs, NamesOf(fs.collections))

\* async connect(): the directories of the listed collections are made, the
\* Set is loaded from collections.json; io "fail" is a mkdirSync or a
\* writeFileSync that throws, which connect's catch turns into false.
Adapter_connect(fs, conn, io) ==
  IF io = "fail"
    THEN [fs |-> fs, connected |-> conn, result |-> Bool(FALSE), found |-> <<>>]
    ELSE [fs |-> [collections |-> fs.listFile,
                  listFile |-> fs.listFile,
                  dirs |-> [d \in DOMAIN fs.dirs \cup
                                    {NormalizeName(c) : c \in fs.listFile} |->
                              IF d \in DOMAIN fs.dirs THEN fs.dirs[d] ELSE <<>>]],
          connected |-> TRUE, result |-> Bool(TRUE), found |-> <<>>]

\* async close()
Adapter_close(fs) ==
  [fs |-> fs, connected |-> FALSE, result |-> Bool(TRUE), found |-> <<>>]

AdapterCollections == {<<"u">>}
AdapterDocs == {Doc2("id", Str("a"), "x", Num(1)), Doc1("x", Num(1))}
AdapterQueries == {EmptyQuery, Doc1("x", Num(1))}
AdapterUpdates == {Doc1("x", Num(2))}
AdapterValues == {Num(1), Num(2)}

\* The variables after a document call of the adapter that gave r
AdapterCall(op, collection, query, document, r) ==
  /\ collections' = r.fs.collections
  /\ listFile' = r.fs.listFile
  /\ dirs' = r.fs.dirs
  /\ ret' = DocRet(op, collection, query, document, r)
  /\ UNCHANGED <<now, cache, kvFiles, pending, hist, registry>>

\* The variables after a key/value call of the adapter
AdapterKvCall(op, key, value, files, result) ==
  /\ kvFiles' = files
  /\ ret' = [NoDocRet EXCEPT !.op = op, !.document = Doc1(key, value),
                             !.at = now, !.result = result]
  /\ UNCHANGED <<now, cache, connected, pending, hist, collections, listFile,
                 dirs, registry, genCount>>

AdapterConnect(io) ==
  /\ connected' = Adapter_connect(Fs, connected, io).connected
  /\ AdapterCall("connect", <<>>, EmptyQuery, EmptyQuery,
                 Adapter_connect(Fs, connected, io))
  /\ UNCHANGED <<genCount, docCalls>>

AdapterClose ==
  /\ connected' = FALSE
  /\ AdapterCall("close", <<>>, EmptyQuery, EmptyQuery, Adapter_close(Fs))
  /\ UNCHANGED <<genCount, docCalls>>

AdapterSet(key, value, io) ==
  /\ CanWrite
  /\ docCalls' = docCalls + 1
  /\ LET r == Adapter_set(kvFiles, connected, key, value, io)
     IN AdapterKvCall("set", key, value, r.files, r.result)

AdapterGet(key) ==
  /\ AdapterKvCall("get", key, Undefined, kvFiles,
                   Adapter_get(kvFiles, connected, key))
  /\ UNCHANGED docCalls

AdapterHas(key) ==
  /\ AdapterKvCall("has", key, Undefined, kvFiles,
                   Adapter_has(kvFiles, connected, key))
  /\ UNCHANGED docCalls

AdapterDelete(key) ==
  /\ CanWrite
  /\ docCalls' = docCalls + 1
  /\ LET r == Adapter_delete(kvFiles, connected, key)
     IN AdapterKvCall("delete", key, Undefined, r.files, r.result)

AdapterGetCollections ==
  /\ AdapterCall("getCollections", <<>>, EmptyQuery, EmptyQuery,
                 Adapter_getCollections(Fs, connected))
  /\ UNCHANGED <<connected, genCount, docCalls>>

AdapterCreateCollection(name) ==
  /\ CanWrite
  /\ docCalls' = docCalls + 1
  /\ AdapterCall("createCollection", name, EmptyQuery, EmptyQuery,
                 Adapter_createCollection(Fs, connected, name))
  /\ UNCHANGED <<connected, genCount>>

AdapterInsert(collection, document) ==
  /\ CanWrite
  /\ NeedsId(document) => genCount < MaxGen
  /\ docCalls' = docCalls + 1
  /\ genCount' = IF NeedsId(document) /\ connected
                   THEN genCount + 1 ELSE genCount
  /\ AdapterCall("insert", collection, EmptyQuery, document,
                 Adapter_insert(Fs, connected, collection, document, now,
                                genCount))
  /\ UNCHANGED connected

AdapterFindOne(collection, query) ==
  /\ AdapterCall("findOne", collection, query, EmptyQuery,
                 Adapter_findOne(Fs, connected, collection, query))
  /\ UNCHANGED <<connected, genCount, docCalls>>

AdapterFind(collection, query) ==
  /\ AdapterCall("find", collection, query, EmptyQuery,
                 Adapter_find(Fs, connected, collection, query))
  /\ UNCHANGED <<connected, genCount, docCalls>>

AdapterUpdate(collection, query, update) ==
  /\ CanWrite
  /\ docCalls' = docCalls + 1
  /\ AdapterCall("update", collection, query, update,
                 Adapter_update(Fs, connected, collection, query, update, now))
  /\ UNCHANGED <<connected, genCount>>

AdapterDeleteFrom(collection, query) ==
  /\ CanWrite
  /\ docCalls' = docCalls + 1
  /\ AdapterCall("deleteFrom", collection, query, EmptyQuery,
                 Adapter_deleteFrom(Fs, connected, collection, query))
  /\ UNCHANGED <<connected, genCount>>

\* new FileStoreAdapter(config): not connected, the Set empty; the
\* directory is empty or holds what set('k', 1) and an insert have written.
InitAdapter ==
  /\ now = 0
  /\ cache = MemoryCache(0, 0)
  /\ ret = NoDocRet
  /\ connected = FALSE
  /\ pending = <<>>
  /\ hist = [settled |-> <<>>]
  /\ registry = {}
  /\ genCount = 0
  /\ docCalls = 0
  /\ collections = {}
  /\ \/ /\ kvFiles = <<>>
        /\ listFile = {}
        /\ dirs = <<>>
     \/ \E r \in {AfterInsert(<<"u">>, Doc2("id", Str("a"), "x", Num(1)))} :
          /\ kvFiles = Adapter_set(<<>>, TRUE, "k", Num(1), "ok").files
          /\ listFile = r.fs.listFile
          /\ dirs = r.fs.dirs

NextAdapter ==
  \/ \E io \in IoOutcomes : AdapterConnect(io)
  \/ AdapterClose
  \/ \E key \in KvKeys, value \in AdapterValues, io \in IoOutcomes :
       AdapterSet(key, value, io)
  \/ \E key \in KvKeys : AdapterGet(key)
  \/ \E key \in KvKeys : AdapterHas(key)
  \/ \E key \in KvKeys : AdapterDelete(key)
  \/ AdapterGetCollections
  \/ \E name \in AdapterCollections : AdapterCreateCollection(name)
  \/ \E collection \in AdapterCollections, document \in AdapterDocs :
       AdapterInsert(collection, document)
  \/ \E collection \in AdapterCollections, query \in AdapterQueries :
       AdapterFindOne(collection, query)
  \/ \E collection \in AdapterCollections, query \in AdapterQueries :
       AdapterFind(collection, query)
  \/ \E collection \in AdapterCollections, query \in AdapterQueries,
        update \in AdapterUpdates :
       AdapterUpdate(collection, query, update)
  \/ \E collection \in AdapterCollections, query \in AdapterQueries :
       AdapterDeleteFrom(collection, query)
  \/ DocsTick

SpecAdapter == InitAdapter /\ [][NextAdapter]_vars

\* The data operations of the adapter
DataOperations ==
  {"set", "get", "has", "delete", "getCollections", "createCollection",
   "insert", "findOne", "find", "update", "deleteFrom"}

\* C14: a data operation of the adapter that is called while the adapter
\* is not connected (before connect() has succeeded, or after close() and
\* before a new connect()) throws the not-connected error and changes no
\* key/value file, no document, and neither the collection list nor its
\* file.
C14_NotConnectedGuard ==
  [][(~connected /\ ret'.op \in DataOperations) =>
       /\ ret'.result = NotConnected
       /\ kvFiles' = kvFiles
       /\ dirs' = dirs
       /\ listFile' = listFile
       /\ collections' = collections]_vars

\* After a close(), the delete of a key that has a file was refused
C14_Witness ==
  /\ ~connected
  /\ collections # {}
  /\ ret.op = "delete"
  /\ ret.result = NotConnected
  /\ \E key \in KvKeys : key \in DOMAIN ret.document /\ FileExists(kvFiles, key)

----------------------------------------------------------------------------
(* SpecRegistry: the StorageEngine of SpecDocs, called with the documents, *)
(* queries and updates of SpecAdapter.  It is the specification of the     *)
(* properties of the engine's registry of collection names.                *)

NextRegistry ==
  \/ \E name \in CollectionNames : DocsCreateCollection(name)
  \/ \E collection \in CollectionNames, document \in AdapterDocs :
       DocsInsert(collection, document)
  \/ \E collection \in CollectionNames, query \in AdapterQueries :
       DocsFindOne(collection, query)
  \/ \E collection \in CollectionNames, query \in AdapterQueries :
       DocsFind(collection, query)
  \/ \E collection \in CollectionNames, query \in AdapterQueries,
        update \in AdapterUpdates :
       DocsUpdate(collection, query, update)
  \/ \E collection \in CollectionNames, query \in AdapterQueries :
       DocsDeleteFrom(collection, query)
  \/ DocsClose
  \/ DocsReopen
  \/ DocsTick

SpecRegistry == InitDocs /\ [][NextRegistry]_vars

\* C17: findOne, find, update and deleteFrom on a collection name that is
\* not in the engine's registry return null, the empty list, 0 and 0, do
\* not reach the adapter (which would throw when it is not connected), and
\* change neither the directory, the adapter's collections nor the registry.
C17_LocalRejection ==
  [][(/\ ret'.op \in {"findOne", "find", "update", "deleteFrom"}
      /\ ret'.collection \notin registry) =>
       /\ ret'.op = "findOne" => ret'.result = Null
       /\ ret'.op = "find" => ret'.result = Object
       /\ ret'.op \in {"update", "deleteFrom"} => ret'.result = Num(0)
       /\ ret'.found = <<>>
       /\ FsNext = Fs
       /\ registry' = registry
       /\ kvFiles' = kvFiles]_vars

\* A deleteFrom through a name that is not registered returned 0, though
\* the adapter is connected and holds documents under its normalized name
C17_Witness ==
  /\ ret.op = "deleteFrom"
  /\ ret.collection \notin registry
  /\ ret.result = Num(0)
  /\ connected
  /\ NormalizeName(ret.collection) \in collections
  /\ Adapter_find(Fs, connected, ret.collection, ret.query).found # <<>>

C19_CreateIdempotent ==
  [][(/\ ret'.op = "createCollection"
      /\ connected
      /\ NormalizeName(ret'.collection) \in collections) =>
       /\ ret'.result = Bool(TRUE)
       /\ Adapter_getCollections(FsNext, connected').found
            = Adapter_getCollections(Fs, connected).found
       /\ collections' = collections
       /\ listFile' = listFile
       /\ dirs' = dirs]_vars

\* The first call was createCollection('U') on a directory whose
\* collection u held a document
C19_Witness ==
  /\ ret.op = "createCollection"
  /\ ret.result = Bool(TRUE)
  /\ ret.collection = <<"U">>
  /\ docCalls = 1
  /\ collections = {<<"u">>}
  /\ registry = {<<"u">>, <<"U">>}
  /\ dirs[<<"u">>] # <<>>

----------------------------------------------------------------------------
(* Close and reopen, under SpecDocs.  Between close() and the next         *)
(* initialize() no call changes the directory, so what the next session    *)
(* finds is what initialize() makes of the directory that close() left.    *)

\* async initialize() of a new StorageEngine over the directory fs: the
\* adapter connects, and the registry takes the names getCollections() gives
Engine_initialize(fs) ==
  LET opened == Adapter_connect(fs, FALSE, "ok")
      listed == Adapter_getCollections(opened.fs, opened.connected)
  IN [fs |-> opened.fs,
      registry |-> {name \in opened.fs.collections :
                      \E i \in DOMAIN listed.found :
                        listed.found[i] = Doc1("name", Str(NameText(name)))}]

\* C16: data survives a close and reopen: for every collection name that
\* was used with createCollection or insert before close(), find(name, {})
\* after a new initialize() on the same directory returns the documents it
\* returned before the close.
C16_SurvivesReopen ==
  [][ret'.op = "close" =>
       LET reopened == Engine_initialize(FsNext)
       IN \A name \in registry :
            Engine_find(reopened.fs, reopened.registry, TRUE, name,
                        EmptyQuery).found
              = Engine_find(Fs, registry, connected, name, EmptyQuery).found]_vars

----------------------------------------------------------------------------
(* SpecMatch: matches(obj, query) of utils.js, applied once to a document  *)
(* and a query.  ret holds the two arguments and then what it returned.    *)

MatchDocs ==
  {EmptyQuery, Doc1("x", Num(1)), Doc1("x", Num(2)), Doc1("x", NaN),
   Doc2("id", Str("a"), "x", Num(1)),
   Doc1("a", Num(1)), Doc1("a", Null), Doc1("a", ObjectOf(EmptyQuery)),
   Doc1("a", ObjectOf(Doc1("b", Num(1)))),
   Doc2("x", Num(1), "a", ObjectOf(Doc2("b", Num(1), "c", Num(1)))),
   Doc1("a", ObjectOf(Doc1("b", ObjectOf(Doc1("c", Num(1)))))),
   Doc1("a.b", Num(1))}

MatchQueries ==
  {EmptyQuery, Doc1("x", Num(1)), Doc1("x", Num(2)), Doc1("x", NaN),
   Doc2("id", Str("a"), "x", Num(1)), Doc2("id", Str("a"), "x", Num(2)),
   Doc1("y", Undefined), Doc1("a", Null),
   Doc1("a", ObjectOf(Doc1("b", Num(1)))),
   Doc1("a.b", Num(1)), Doc1("a.c", Num(1)), Doc1("a.b.c", Num(1)),
   Doc1("a.b", Undefined), Doc1("a.b.c", Undefined),
   Doc2("x", Num(1), "a.b", Num(1)), Doc2("x", Num(2), "a.b", Num(1))}

InitMatch ==
  /\ now = 0
  /\ cache = MemoryCache(0, 0)
  /\ kvFiles = <<>>
  /\ connected = FALSE
  /\ pending = <<>>
  /\ hist = [settled |-> <<>>]
  /\ collections = {}
  /\ listFile = {}
  /\ dirs = <<>>
  /\ registry = {}
  /\ genCount = 0
  /\ docCalls = 0
  /\ \E obj \in MatchDocs, query \in MatchQueries :
       ret = [NoDocRet EXCEPT !.document = obj, !.query = query]

\* const result = matches(obj, query)
MatchCall ==
  /\ ret.op = "none"
  /\ ret' = [ret EXCEPT !.op = "matches",
                        !.result = Bool(Matches(ret.document, ret.query))]
  /\ UNCHANGED <<now, cache, kvVars, docVars>>

NextMatch == MatchCall

SpecMatch == InitMatch /\ [][NextMatch]_vars

RECURSIVE PathValue(_, _, _)
\* The value at the first i parts of a path into a document
PathValue(obj, parts, i) ==
  IF i = 0 THEN ObjectOf(obj)
  ELSE Property(PathValue(obj, parts, i - 1), parts[i])

\* A key of a query is satisfied by a document: a plain key when the
\* document's field is strictly equal to the query's value; a dotted key
\* when no value before the end of its path is undefined or null and the
\* value at the end of the path is strictly equal to the query's value
Satisfied(obj, query, key) ==
  IF IncludesDot(key)
    THEN LET parts == Split(key)
         IN /\ \A i \in 1..(Len(parts) - 1) :
                 PathValue(obj, parts, i) \notin {Undefined, Null}
            /\ StrictEq(PathValue(obj, parts, Len(parts)), query[key])
    ELSE StrictEq(Field(obj, key), query[key])

\* C20: matches(document, query) is true exactly when every key of the
\* query is satisfied, a plain key by strict equality of document[key] with
\* the query's value and a dotted key by the walk through the nested
\* fields, which fails when an intermediate value is absent; the empty
\* query matches every document.
C20_QueryMatcher ==
  ret.op = "matches" =>
    /\ ret.result =
         Bool(\A key \in DOMAIN ret.query :
                Satisfied(ret.document, ret.query, key))
    /\ DOMAIN ret.query = {} => ret.result = Bool(TRUE)

\* matches({x: 1, a: {b: 1, c: 1}}, {x: 2, 'a.b': 1}) returned false: the
\* dotted key is satisfied, the plain key is not
C20_Witness ==
  /\ ret.op = "matches"
  /\ ret.result = Bool(FALSE)
  /\ DOMAIN ret.query = {"x", "a.b"}
  /\ Satisfied(ret.document, ret.query, "a.b")
  /\ ~Satisfied(ret.document, ret.query, "x")

----------------------------------------------------------------------------
(* SpecConc: StorageEngine insert and update calls that are not awaited    *)
(* one by one.  A call runs to its first await; what is left of it waits   *)
(* in pending, and the event loop resumes the waiting calls oldest first.  *)
(* update waits at `await this.find(collection, query)` with the documents *)
(* find has read; insert waits at `await this.createCollection(...)`, in   *)
(* the engine (for a name the registry does not hold) and in the adapter.  *)
(* hist is the calls that have returned, oldest first.                     *)

ConcUpdates == {Doc1("x", Num(2)), Doc1("y", Num(1))}
ConcDocs == {Doc2("id", Str("a"), "z", Num(1))}
ConcQueries == {Doc1("id", Str("a")), Doc1("x", Num(1))}

\* A call that waits at an await
ConcWaiting(op, at, collection, query, document, docs) ==
  [op |-> op, at |-> at, collection |-> collection, query |-> query,
   document |-> document, docs |-> docs]

\* A call returns: the caller sees r, and hist takes the call
ConcReturn(op, collection, query, document, r) ==
  /\ ret' = DocRet(op, collection, query, document, r)
  /\ hist' = Append(hist, [op |-> op, document |-> document,
                           result |-> r.result])

\* The loop of update over the documents as their files hold them now,
\* read again after the await
Adapter_update_Reread(fs, collection, docs, update, n) ==
  IF docs = <<>> THEN Returns(fs, Num(0))
  ELSE Returns([fs EXCEPT !.dirs[NormalizeName(collection)] =
                  UpdateEach(@, [i \in DOMAIN docs |->
                                   Stored(@, FileName(DocId(docs[i])))],
                             1, update, n)],
               Num(Len(docs)))

\* update(collection, query, update) after its await: the loop over docs,
\* the documents find gave before the await; n is Date.now()
Adapter_update_Write(fs, collection, docs, update, n) ==
  IF docs = <<>> THEN Returns(fs, Num(0))
  ELSE Returns([fs EXCEPT !.dirs[NormalizeName(collection)] =
                  UpdateEach(@, docs, 1, update, n)],
               Num(Len(docs)))

\* StorageEngine.update up to the await of the adapter's find
ConcUpdateCall(collection, query, update) ==
  /\ CanWrite
  /\ Len(pending) < MaxPending
  /\ docCalls' = docCalls + 1
  /\ IF collection \notin registry \/ NormalizeName(collection) \notin collections
       THEN /\ ConcReturn("update", collection, query, update,
                          Returns(Fs, Num(0)))
            /\ UNCHANGED pending
       ELSE /\ pending' = Append(pending,
                 ConcWaiting("update", "found", collection, query, update,
                   Adapter_find(Fs, connected, collection, query).found))
            /\ UNCHANGED <<ret, hist>>
  /\ UNCHANGED <<now, cache, kvFiles, connected, collections, listFile, dirs,
                 registry, genCount>>

\* StorageEngine.insert up to its first await: of the engine's
\* createCollection, or of the adapter's inside adapter.insert
ConcInsertCall(collection, document) ==
  /\ CanWrite
  /\ Len(pending) < MaxPending
  /\ docCalls' = docCalls + 1
  /\ LET made == Adapter_createCollection(Fs, connected, collection).fs
     IN /\ collections' = made.collections
        /\ listFile' = made.listFile
        /\ dirs' = made.dirs
  /\ pending' = Append(pending,
       ConcWaiting("insert",
                   IF collection \notin registry THEN "creating" ELSE "ensured",
                   collection, EmptyQuery, document, <<>>))
  /\ UNCHANGED <<now, cache, ret, kvFiles, connected, hist, registry, genCount>>

\* The event loop resumes the oldest waiting call
ConcResume ==
  /\ pending # <<>>
  /\ LET call == Head(pending)
     IN CASE call.op = "update" ->
               LET r == Adapter_update_Write(Fs, call.collection, call.docs,
                                             call.document, now)
               IN /\ dirs' = r.fs.dirs
                  /\ pending' = Tail(pending)
                  /\ ConcReturn("update", call.collection, call.query,
                                call.document, r)
                  /\ UNCHANGED <<collections, listFile, registry>>
          [] call.op = "insert" /\ call.at = "creating" ->
               \* StorageEngine.createCollection after its await
               /\ registry' = registry \cup {call.collection}
               /\ pending' = Append(Tail(pending), [call EXCEPT !.at = "created"])
               /\ UNCHANGED <<collections, listFile, dirs, ret, hist>>
          [] call.op = "insert" /\ call.at = "created" ->
               \* StorageEngine.insert after its await: adapter.insert up to
               \* its await
               LET made == Adapter_createCollection(Fs, connected,
                             NormalizeName(call.collection)).fs
               IN /\ collections' = made.collections
                  /\ listFile' = made.listFile
                  /\ dirs' = made.dirs
                  /\ pending' = Append(Tail(pending),
                                       [call EXCEPT !.at = "ensured"])
                  /\ UNCHANGED <<registry, ret, hist>>
          [] call.op = "insert" /\ call.at = "ensured" ->
               \* adapter.insert after its await; the collection is there
               LET r == Adapter_insert(Fs, connected, call.collection,
                                       call.document, now, genCount)
               IN /\ collections' = r.fs.collections
                  /\ listFile' = r.fs.listFile
                  /\ dirs' = r.fs.dirs
                  /\ pending' = Tail(pending)
                  /\ ConcReturn("insert", call.collection, call.query,
                                call.document, r)
                  /\ UNCHANGED registry
  /\ UNCHANGED <<now, cache, kvFiles, connected, genCount, docCalls>>

\* A millisecond passes.
ConcTick ==
  /\ now < MaxDocTime
  /\ now' = now + 1
  /\ UNCHANGED <<cache, ret, kvVars, docVars>>

\* The directory holds what `await engine.insert('u', {id: 'a', x: 1})` has
\* written; no call is waiting.
InitConc ==
  /\ now = 0
  /\ cache = MemoryCache(0, 0)
  /\ ret = NoDocRet
  /\ kvFiles = <<>>
  /\ connected = TRUE
  /\ pending = <<>>
  /\ hist = <<>>
  /\ genCount = 0
  /\ docCalls = 0
  /\ \E r \in {AfterInsert(<<"u">>, Doc2("id", Str("a"), "x", Num(1)))} :
       /\ collections = r.fs.collections
       /\ listFile = r.fs.listFile
       /\ dirs = r.fs.dirs
       /\ registry = r.registry

NextConc ==
  \/ \E collection \in CollectionNames, query \in ConcQueries,
        update \in ConcUpdates :
       ConcUpdateCall(collection, query, update)
  \/ \E collection \in CollectionNames, document \in ConcDocs :
       ConcInsertCall(collection, document)
  \/ ConcResume
  \/ ConcTick

SpecConc == InitConc /\ [][NextConc]_vars

\* C21: an update writes, for each document its find gave before the
\* await, that document with the update's fields over it, whatever the
\* file holds by then: what another writer stored in the meantime is not in
\* the file any more, and the document reflects the last writer only.
C21_LastWriterWins ==
  [][(/\ pending # <<>>
      /\ Head(pending).op = "update"
      /\ pending' = Tail(pending)) =>
       LET call == Head(pending)
           d == NormalizeName(call.collection)
       IN /\ ret'.result = Num(Len(call.docs))
          /\ \A i \in DOMAIN call.docs :
               dirs'[d][FileName(DocId(call.docs[i]))] =
                 JSONstringifyDoc(Put(Spread(call.docs[i], call.document),
                                      "updated_at", Num(now)))]_vars

\* update {x: 2} and update {y: 1} of document a both returned 1, none is
\* waiting, and the stored document has y = 1 and still x = 1: the first
\* update is lost
C21_Witness ==
  /\ pending = <<>>
  /\ Len(hist) = 2
  /\ hist[1] = [op |-> "update", document |-> Doc1("x", Num(2)),
                result |-> Num(1)]
  /\ hist[2] = [op |-> "update", document |-> Doc1("y", Num(1)),
                result |-> Num(1)]
  /\ Field(Stored(dirs[<<"u">>], "a.json"), "y") = Num(1)
  /\ Field(Stored(dirs[<<"u">>], "a.json"), "x") = Num(1)

----------------------------------------------------------------------------
(* SpecFaults: a connected FileStoreAdapter whose file operations can      *)
(* throw.  In each call one kind of file operation (fault) throws where    *)
(* the call makes it: fs.mkdirSync, fs.writeFileSync of collections.json,  *)
(* fs.writeFileSync of a document or key file, a read (fs.readdirSync,     *)
(* fs.readFileSync or JSON.parse), or fs.unlinkSync.  Each operator gives  *)
(* what the fault-free one gives and threw: whether a file operation of    *)
(* the call did throw.  hist holds the fault and threw of the last call.   *)

Faults == {"none", "mkdir", "writeList", "writeDoc", "read", "unlink"}

Io(r, threw) ==
  [fs |-> r.fs, result |-> r.result, found |-> r.found, threw |-> threw]

\* async set(key, value)
Adapter_set_Io(files, conn, key, value, fault) ==
  LET r == Adapter_set(files, conn, key, value,
                       IF fault = "writeDoc" THEN "fail" ELSE "ok")
  IN [files |-> r.files, result |-> r.result,
      threw |-> conn /\ (fault = "writeDoc" \/ JSONstringify(value) = Undefined)]

\* async get(key)
Adapter_get_Io(files, conn, key, fault) ==
  IF conn /\ FileExists(files, key) /\ fault = "read"
    THEN [files |-> files, result |-> Null, threw |-> TRUE]
    ELSE [files |-> files, result |-> Adapter_get(files, conn, key),
          threw |-> FALSE]

\* async delete(key)
Adapter_delete_Io(files, conn, key, fault) ==
  IF conn /\ FileExists(files, key) /\ fault = "unlink"
    THEN [files |-> files, result |-> Bool(FALSE), threw |-> TRUE]
    ELSE [files |-> Adapter_delete(files, conn, key).files,
          result |-> Adapter_delete(files, conn, key).result,
          threw |-> FALSE]

\* async createCollection(name): this.collections.add(normalizedName) comes
\* before the write of collections.json
Adapter_createCollection_Io(fs, conn, name, fault) ==
  IF ~conn THEN Io(Throws(fs, NotConnected), FALSE)
  ELSE
    LET normalizedName == NormalizeName(name)
        missing == normalizedName \notin DOMAIN fs.dirs
        made == IF missing THEN Mkdir(fs.dirs, normalizedName) ELSE fs.dirs
    IN IF missing /\ fault = "mkdir"
         THEN Io(Returns(fs, Bool(FALSE)), TRUE)
       ELSE IF normalizedName \notin fs.collections /\ fault = "writeList"
         THEN Io(Returns([collections |-> fs.collections \cup {normalizedName},
                          listFile |-> fs.listFile,
                          dirs |-> made],
                         Bool(FALSE)),
                 TRUE)
       ELSE Io(Adapter_createCollection(fs, conn, name), FALSE)

\* async insert(collection, document): what createCollection returns is
\* not looked at; the write of the document throws when its directory is
\* not there
Adapter_insert_Io(fs, conn, collection, document, n, count, fault) ==
  IF ~conn THEN Io(Throws(fs, NotConnected), FALSE)
  ELSE
    LET normalizedName == NormalizeName(collection)
        created == Adapter_createCollection_Io(fs, conn, normalizedName, fault)
    IN IF normalizedName \notin DOMAIN created.fs.dirs \/ fault = "writeDoc"
         THEN Io(Returns(created.fs, Bool(FALSE)), TRUE)
         ELSE Io(Adapter_insert(created.fs, conn, collection, document, n,
                                count),
                 created.threw)

\* async find(collection, query)
Adapter_find_Io(fs, conn, collection, query, fault) ==
  IF /\ conn
     /\ NormalizeName(collection) \in fs.collections
     /\ (fault = "read" \/ NormalizeName(collection) \notin DOMAIN fs.dirs)
    THEN Io(ReturnsDocs(fs, <<>>), TRUE)
    ELSE Io(Adapter_find(fs, conn, collection, query), FALSE)

\* async findOne(collection, query)
Adapter_findOne_Io(fs, conn, collection, query, fault) ==
  LET normalizedName == NormalizeName(collection)
      id == Or(Field(query, "id"), Field(query, "_id"))
  IN IF /\ conn
        /\ normalizedName \in fs.collections
        /\ fault = "read"
        /\ Truthy(id) => /\ normalizedName \in DOMAIN fs.dirs
                         /\ FileExists(fs.dirs[normalizedName], FileName(id))
       THEN Io(Returns(fs, Null), TRUE)
       ELSE Io(Adapter_findOne(fs, conn, collection, query), FALSE)

\* async update(collection, query, update)
Adapter_update_Io(fs, conn, collection, query, update, n, fault) ==
  LET found == Adapter_find_Io(fs, conn, collection, query, fault)
  IN IF ~conn \/ NormalizeName(collection) \notin fs.collections
       THEN Io(Adapter_update(fs, conn, collection, query, update, n), FALSE)
     ELSE IF found.threw \/ (found.found # <<>> /\ fault = "writeDoc")
       THEN Io(Returns(fs, Num(0)), TRUE)
     ELSE Io(Adapter_update(fs, conn, collection, query, update, n), FALSE)

\* async deleteFrom(collection, query)
Adapter_deleteFrom_Io(fs, conn, collection, query, fault) ==
  LET normalizedName == NormalizeName(collection)
      id == Or(Field(query, "id"), Field(query, "_id"))
      found == Adapter_find_Io(fs, conn, collection, query, fault)
  IN IF ~conn \/ normalizedName \notin fs.collections
       THEN Io(Adapter_deleteFrom(fs, conn, collection, query), FALSE)
     ELSE IF Truthy(id)
       THEN IF /\ fault = "unlink"
               /\ normalizedName \in DOMAIN fs.dirs
               /\ FileExists(fs.dirs[normalizedName], FileName(id))
              THEN Io(Returns(fs, Num(0)), TRUE)
              ELSE Io(Adapter_deleteFrom(fs, conn, collection, query), FALSE)
     ELSE IF found.threw \/ (found.found # <<>> /\ fault = "unlink")
       THEN Io(Returns(fs, Num(0)), TRUE)
     ELSE Io(Adapter_deleteFrom(fs, conn, collection, query), FALSE)

\* The variables after a document call that gave r under fault
FaultCall(op, collection, query, document, r, fault) ==
  /\ collections' = r.fs.collections
  /\ listFile' = r.fs.listFile
  /\ dirs' = r.fs.dirs
  /\ ret' = DocRet(op, collection, query, document, r)
  /\ hist' = [fault |-> fault, threw |-> r.threw]
  /\ UNCHANGED <<now, cache, kvFiles, connected, pending, registry>>

\* The variables after a key/value call that gave r under fault
FaultKvCall(op, key, value, r, fault) ==
  /\ kvFiles' = r.files
  /\ ret' = [NoDocRet EXCEPT !.op = op, !.document = Doc1(key, value),
                             !.at = now, !.result = r.result]
  /\ hist' = [fault |-> fault, threw |-> r.threw]
  /\ UNCHANGED <<now, cache, connected, pending>>

FaultSet(key, value, fault) ==
  /\ FaultKvCall("set", key, value,
                 Adapter_set_Io(kvFiles, connected, key, value, fault), fault)
  /\ UNCHANGED docVars

FaultGet(key, fault) ==
  /\ FaultKvCall("get", key, Undefined,
                 Adapter_get_Io(kvFiles, connected, key, fault), fault)
  /\ UNCHANGED docVars

FaultDelete(key, fault) ==
  /\ FaultKvCall("delete", key, Undefined,
                 Adapter_delete_Io(kvFiles, connected, key, fault), fault)
  /\ UNCHANGED docVars

FaultCreateCollection(name, fault) ==
  /\ CanWrite
  /\ docCalls' = docCalls + 1
  /\ FaultCall("createCollection", name, EmptyQuery, EmptyQuery,
               Adapter_createCollection_Io(Fs, connected, name, fault), fault)
  /\ UNCHANGED genCount

FaultInsert(collection, document, fault) ==
  /\ CanWrite
  /\ NeedsId(document) => genCount < MaxGen
  /\ docCalls' = docCalls + 1
  /\ genCount' = IF NeedsId(document) THEN genCount + 1 ELSE genCount
  /\ FaultCall("insert", collection, EmptyQuery, document,
               Adapter_insert_Io(Fs, connected, collection, document, now,
                                 genCount, fault),
               fault)

FaultFindOne(collection, query, fault) ==
  /\ FaultCall("findOne", collection, query, EmptyQuery,
               Adapter_findOne_Io(Fs, connected, collection, query, fault),
               fault)
  /\ UNCHANGED <<genCount, docCalls>>

FaultFind(collection, query, fault) ==
  /\ FaultCall("find", collection, query, EmptyQuery,
               Adapter_find_Io(Fs, connected, collection, query, fault), fault)
  /\ UNCHANGED <<genCount, docCalls>>

FaultUpdate(collection, query, update, fault) ==
  /\ CanWrite
  /\ docCalls' = docCalls + 1
  /\ FaultCall("update", collection, query, update,
               Adapter_update_Io(Fs, connected, collection, query, update,
                                 now, fault),
               fault)
  /\ UNCHANGED genCount

FaultDeleteFrom(collection, query, fault) ==
  /\ CanWrite
  /\ docCalls' = docCalls + 1
  /\ FaultCall("deleteFrom", collection, query, EmptyQuery,
               Adapter_deleteFrom_Io(Fs, connected, collection, query, fault),
               fault)
  /\ UNCHANGED genCount

\* connect() has returned true on a directory that is empty or holds key
\* k and document a of collection u
InitFaults ==
  /\ now = 0
  /\ cache = MemoryCache(0, 0)
  /\ ret = NoDocRet
  /\ connected = TRUE
  /\ pending = <<>>
  /\ hist = [fault |-> "none", threw |-> FALSE]
  /\ registry = {}
  /\ genCount = 0
  /\ docCalls = 0
  /\ \/ /\ kvFiles = <<>>
        /\ collections = {}
        /\ listFile = {}
        /\ dirs = <<>>
     \/ \E r \in {AfterInsert(<<"u">>, Doc2("id", Str("a"), "x", Num(1)))} :
          /\ kvFiles = Adapter_set(<<>>, TRUE, "k", Num(1), "ok").files
          /\ collections = r.fs.collections
          /\ listFile = r.fs.listFile
          /\ dirs = r.fs.dirs

NextFaults ==
  \/ \E key \in KvKeys, value \in AdapterValues, fault \in Faults :
       FaultSet(key, value, fault)
  \/ \E key \in KvKeys, fault \in Faults : FaultGet(key, fault)
  \/ \E key \in KvKeys, fault \in Faults : FaultDelete(key, fault)
  \/ \E name \in AdapterCollections, fault \in Faults :
       FaultCreateCollection(name, fault)
  \/ \E collection \in AdapterCollections, document \in AdapterDocs,
        fault \in Faults :
       FaultInsert(collection, document, fault)
  \/ \E collection \in AdapterCollections, query \in Queries,
        fault \in Faults :
       FaultFindOne(collection, query, fault)
  \/ \E collection \in AdapterCollections, query \in Queries,
        fault \in Faults :
       FaultFind(collection, query, fault)
  \/ \E collection \in AdapterCollections, query \in Queries,
        update \in AdapterUpdates, fault \in Faults :
       FaultUpdate(collection, query, update, fault)
  \/ \E collection \in AdapterCollections, query \in Queries,
        fault \in Faults :
       FaultDeleteFrom(collection, query, fault)

SpecFaults == InitFaults /\ [][NextFaults]_vars

\* What an operation returns for a failure
FailureIndicator(op) ==
  CASE op \in {"set", "delete", "insert", "createCollection"} -> Bool(FALSE)
    [] op \in {"get", "findOne"} -> Null
    [] op = "find" -> Object
    [] op \in {"update", "deleteFrom"} -> Num(0)

\* C22: no call on a connected adapter throws, and a call during which a
\* file operation threw returns its failure indicator: false for set,
\* delete, insert and createCollection, null for get and findOne, the empty
\* list for find, 0 for update and deleteFrom.
C22_FailuresAsValues ==
  [][connected =>
       /\ ret'.result.t # "error"
       /\ hist'.threw => /\ ret'.result = FailureIndicator(ret'.op)
                         /\ ret'.found = <<>>]_vars

----------------------------------------------------------------------------
(* SpecNotify: a HyperDB whose configuration enables sync and realtime, so *)
(* that this.cloudSync and this.realtimeSync are there.  A mutating call   *)
(* runs its storage operation and waits at `await this.storage.<op>(...)`  *)
(* in pending; resumed, it forwards the change event to the two            *)
(* collaborators.  hist is the events forwarded, oldest first.             *)

\* The event a call hands to cloudSync.sync or to realtimeSync.broadcast
Event(to, operation, key, collection) ==
  [to |-> to, operation |-> operation, key |-> key, collection |-> collection]

\* What the two `if (result ...)` statements forward whatever result is
HyperDB_Events_Always(op, key, collection, result) ==
  LET operation == IF op = "deleteFrom" THEN "delete" ELSE op
  IN <<Event("cloudSync", operation, key, collection),
       Event("realtimeSync", operation, key, collection)>>

\* if (result && this.cloudSync) this.cloudSync.sync({...});
\* if (result && this.realtimeSync) this.realtimeSync.broadcast({...});
\* with result > 0 for result in update and deleteFrom
HyperDB_Events(op, key, collection, result) ==
  LET operation == IF op = "deleteFrom" THEN "delete" ELSE op
      passes == IF op \in {"update", "deleteFrom"}
                  THEN result.t = "number" /\ result.n > 0
                  ELSE Truthy(result)
  IN IF passes
       THEN <<Event("cloudSync", operation, key, collection),
              Event("realtimeSync", operation, key, collection)>>
       ELSE <<>>

\* A call that waits at its await with what storage has returned or thrown
NotifyWaiting(op, key, collection, result) ==
  [op |-> op, key |-> key, collection |-> collection, result |-> result]

CanNotify == docCalls < MaxDocCalls /\ Len(pending) < MaxPending

\* HyperDB.set up to its await
NotifySet(key, value, io) ==
  /\ CanNotify
  /\ docCalls' = docCalls + 1
  /\ cache' = MC_set(cache, key, value, Undefined, now)
  /\ LET r == Engine_set(kvFiles, connected, key, value, io)
     IN /\ kvFiles' = r.files
        /\ pending' = Append(pending, NotifyWaiting("set", key, <<>>, r.result))
  /\ UNCHANGED <<now, ret, connected, hist, collections, listFile, dirs,
                 registry, genCount>>

\* HyperDB.delete up to its await
NotifyDelete(key) ==
  /\ CanNotify
  /\ docCalls' = docCalls + 1
  /\ cache' = MC_delete(cache, key)
  /\ LET r == Engine_delete(kvFiles, connected, key)
     IN /\ kvFiles' = r.files
        /\ pending' = Append(pending,
                             NotifyWaiting("delete", key, <<>>, r.result))
  /\ UNCHANGED <<now, ret, connected, hist, collections, listFile, dirs,
                 registry, genCount>>

\* The variables after the storage operation of a document call gave r
NotifyDocCall(op, collection, r) ==
  /\ CanNotify
  /\ docCalls' = docCalls + 1
  /\ collections' = r.fs.collections
  /\ listFile' = r.fs.listFile
  /\ dirs' = r.fs.dirs
  /\ registry' = r.registry
  /\ pending' = Append(pending, NotifyWaiting(op, "", collection, r.result))
  /\ UNCHANGED <<now, cache, ret, kvFiles, connected, hist>>

\* HyperDB.insert up to the return of this.storage.insert
NotifyInsert(collection, document) ==
  /\ NeedsId(document) => genCount < MaxGen
  /\ genCount' = IF NeedsId(document) /\ connected
                   THEN genCount + 1 ELSE genCount
  /\ NotifyDocCall("insert", collection,
                   Engine_insert(Fs, registry, connected, collection, document,
                                 now, genCount))

\* HyperDB.update up to the return of this.storage.update
NotifyUpdate(collection, query, update) ==
  /\ NotifyDocCall("update", collection,
                   Engine_update(Fs, registry, connected, collection, query,
                                 update, now))
  /\ UNCHANGED genCount

\* HyperDB.deleteFrom up to the return of this.storage.deleteFrom
NotifyDeleteFrom(collection, query) ==
  /\ NotifyDocCall("deleteFrom", collection,
                   Engine_deleteFrom(Fs, registry, connected, collection, query))
  /\ UNCHANGED genCount

\* HyperDB.close, awaited while no other call waits: the adapter is
\* closed, the registry and the cache are cleared
NotifyClose ==
  /\ connected
  /\ pending = <<>>
  /\ connected' = FALSE
  /\ registry' = {}
  /\ cache' = MC_clear(cache)
  /\ UNCHANGED <<now, ret, kvFiles, pending, hist, collections,
                 listFile, dirs, genCount, docCalls>>

\* The oldest waiting call runs from its await to its return
NotifyResume ==
  /\ pending # <<>>
  /\ LET call == Head(pending)
     IN /\ hist' = IF call.result.t = "error" THEN hist
                   ELSE hist \o HyperDB_Events(call.op, call.key,
                                               call.collection, call.result)
        /\ ret' = [NoDocRet EXCEPT !.op = call.op, !.at = now,
                                   !.collection = call.collection,
                                   !.result = call.result]
  /\ pending' = Tail(pending)
  /\ UNCHANGED <<now, cache, kvFiles, connected, docVars>>

\* initialize() has run on a directory that is empty or holds document a
\* of collection u
InitNotify ==
  /\ now = 0
  /\ cache = MemoryCache(0, 0)
  /\ ret = NoDocRet
  /\ kvFiles = <<>>
  /\ connected = TRUE
  /\ pending = <<>>
  /\ hist = <<>>
  /\ genCount = 0
  /\ docCalls = 0
  /\ \/ /\ collections = {}
        /\ listFile = {}
        /\ dirs = <<>>
        /\ registry = {}
     \/ \E r \in {AfterInsert(<<"u">>, Doc2("id", Str("a"), "x", Num(1)))} :
          /\ collections = r.fs.collections
          /\ listFile = r.fs.listFile
          /\ dirs = r.fs.dirs
          /\ registry = r.registry

NextNotify ==
  \/ \E key \in KvKeys, value \in KvValues, io \in IoOutcomes :
       NotifySet(key, value, io)
  \/ \E key \in KvKeys : NotifyDelete(key)
  \/ \E collection \in AdapterCollections, document \in AdapterDocs :
       NotifyInsert(collection, document)
  \/ \E collection \in AdapterCollections, query \in AdapterQueries,
        update \in AdapterUpdates :
       NotifyUpdate(collection, query, update)
  \/ \E collection \in AdapterCollections, query \in AdapterQueries :
       NotifyDeleteFrom(collection, query)
  \/ NotifyClose
  \/ NotifyResume

SpecNotify == InitNotify /\ [][NextNotify]_vars

\* C23: events are forwarded only by a call that resumes after its storage
\* operation, and only when that operation returned true (set, delete,
\* insert) or a count above 0 (update, deleteFrom): then one event goes to
\* cloudSync and one to realtimeSync, with operation set, delete, insert,
\* update, and delete for deleteFrom.  A call whose storage operation
\* returned false or 0, or threw, forwards nothing.
C23_ChangeNotification ==
  [][IF pending # <<>> /\ pending' = Tail(pending)
       THEN LET call == Head(pending)
                success == \/ call.result = Bool(TRUE)
                           \/ call.result.t = "number" /\ call.result.n > 0
            IN IF success
                 THEN /\ Len(hist') = Len(hist) + 2
                      /\ SubSeq(hist', 1, Len(hist)) = hist
                      /\ {hist'[i].to : i \in Len(hist) + 1 .. Len(hist')}
                           = {"cloudSync", "realtimeSync"}
                      /\ \A i \in Len(hist) + 1 .. Len(hist') :
                           /\ hist'[i].operation =
                                IF call.op = "deleteFrom" THEN "delete"
                                ELSE call.op
                           /\ hist'[i].key = call.key
                           /\ hist'[i].collection = call.collection
                 ELSE hist' = hist
       ELSE hist' = hist]_vars

\* Two calls have returned: one forwarded its two events, and the last, a
\* deleteFrom that matched no document and returned 0, forwarded none
C23_Witness ==
  /\ pending = <<>>
  /\ docCalls = 2
  /\ Len(hist) = 2
  /\ ret.op = "deleteFrom"
  /\ ret.result = Num(0)

----------------------------------------------------------------------------
(* Read-through caching of HyperDB.get, under SpecKV.                      *)

\* The step is a call of get(key): the one call that counts a hit or a miss
GetCalled(key) ==
  /\ cache'.stats.hits + cache'.stats.misses =
       cache.stats.hits + cache.stats.misses + 1
  /\ IF Suspends(pending, pending')
       THEN Suspended(pending').op = "get" /\ Suspended(pending').key = key
       ELSE ret'.op = "get" /\ ret'.key = key

\* The cache holds an entry of key that has not expired
Fresh(c, key, n) == HasEntry(c, key) /\ ~Expired(EntryOf(c, key).expiry, n)

\* The cache holds a value for key: a live entry whose value is not
\* undefined, which HyperDB.get takes for no entry
Cached(c, key, n) == Fresh(c, key, n) /\ EntryOf(c, key).value # Undefined

\* C24: a get whose key the cache holds no value for consults storage; when
\* storage gives a value, the get writes it into the cache and returns it;
\* a cache entry stays as it is until a set, a delete, a write-back or a
\* close changes it or it expires; and a get whose key the cache holds a
\* value for returns that value at once, with no storage call.
C24_ReadThrough ==
  [][\A key \in KvKeys :
       /\ (GetCalled(key) /\ ~Cached(cache, key, now))
            => /\ Suspends(pending, pending')
               /\ Suspended(pending').result = Engine_get(kvFiles, connected, key)
       /\ (/\ pending # <<>>
           /\ pending' = Tail(pending)
           /\ Head(pending) = Call("get", key, Undefined, Head(pending).result,
                                   Head(pending).expect)
           /\ Head(pending).result.t # "error"
           /\ Head(pending).result # Null)
            => /\ ret'.result = Head(pending).result
               /\ HasEntry(cache', key)
               /\ EntryOf(cache', key).value = Head(pending).result
               /\ EntryOf(cache', key).expiry = now + DefaultTtl
       /\ (/\ Fresh(cache, key, now)
           /\ ~(Suspends(pending, pending')
                  /\ Suspended(pending').op \in {"set", "delete"})
           /\ ~(pending # <<>> /\ pending' = Tail(pending)
                  /\ Head(pending).op \in {"get", "close"}))
            => /\ HasEntry(cache', key)
               /\ EntryOf(cache', key) = EntryOf(cache, key)
       /\ (GetCalled(key) /\ Cached(cache, key, now))
            => /\ pending' = pending
               /\ kvFiles' = kvFiles
               /\ ret'.op = "get"
               /\ ret'.result = EntryOf(cache, key).value]_vars

\* A get has missed, read 1 from the file an earlier session left, and
\* written it back (the only set the cache has counted); the next get has
\* been answered from the cache.
C24_Witness ==
  /\ connected
  /\ pending = <<>>
  /\ hist.settled["k"] = NoValue
  /\ FileExists(kvFiles, "k")
  /\ kvFiles["k"] = JSONstringify(Num(1))
  /\ cache.stats = [hits |-> 1, misses |-> 1, sets |-> 1, deletes |-> 0]
  /\ ret.op = "get"
  /\ ret.result = Num(1)

----------------------------------------------------------------------------
(* SpecStats: the MemoryCache of SpecCache and its callers, who also call  *)
(* getStats().  The stats are small non-negative integers; their quotient  *)
(* is an integer, NaN (0 / 0), or the number n / d in lowest terms, held   *)
(* as Quotient(n, d).                                                      *)

RECURSIVE Gcd(_, _)
Gcd(a, b) == IF b = 0 THEN a ELSE Gcd(b, a % b)

\* The number n / d that is no integer
Quotient(n, d) == [t |-> "number", s |-> "/", n |-> n, d |-> d]

\* a / b of two non-negative integers, a <= b
Divide(a, b) ==
  IF b = 0 THEN NaN
  ELSE IF a % b = 0 THEN Num(a \div b)
  ELSE Quotient(a \div Gcd(a, b), b \div Gcd(a, b))

\* getStats() whose hitRate has no `|| 0`
MC_getStats_NoFallback(c) ==
  [hits |-> c.stats.hits, misses |-> c.stats.misses, sets |-> c.stats.sets,
   deletes |-> c.stats.deletes, size |-> Len(c.entries),
   hitRate |-> Divide(c.stats.hits, c.stats.hits + c.stats.misses)]

\* getStats()
MC_getStats(c) ==
  [hits |-> c.stats.hits, misses |-> c.stats.misses, sets |-> c.stats.sets,
   deletes |-> c.stats.deletes, size |-> Len(c.entries),
   hitRate |-> Or(Divide(c.stats.hits, c.stats.hits + c.stats.misses), Num(0))]

\* A caller reads the hit rate.
CacheGetStats ==
  /\ ret.op # "getStats"
  /\ ret' = Ret("getStats", "", MC_getStats(cache).hitRate, cache, cache)
  /\ UNCHANGED <<now, cache, kvVars, docVars>>

NextStats ==
  \/ NextCache
  \/ CacheGetStats

SpecStats == InitCache /\ [][NextStats]_vars

\* The get calls since construction or the last clear(): those that gave a
\* value and those that gave none.  A step with ret'.op = "get" is a get.
GetsCounted ==
  LET s == MC_getStats(cache)
      s2 == MC_getStats(cache')
  IN CASE ret'.op = "get" /\ ret'.result # Undefined ->
            s2.hits = s.hits + 1 /\ s2.misses = s.misses
       [] ret'.op = "get" /\ ret'.result = Undefined ->
            s2.hits = s.hits /\ s2.misses = s.misses + 1
       [] ret'.op = "clear" -> s2.hits = 0 /\ s2.misses = 0
       [] OTHER -> s2.hits = s.hits /\ s2.misses = s.misses

\* r is the number hits / (hits + misses), for hits + misses > 0
IsRate(r, hits, misses) ==
  /\ r.t = "number"
  /\ IF r.s = "/"
       THEN r.d > 0 /\ r.n * (hits + misses) = r.d * hits
       ELSE r.s = "" /\ r.n * (hits + misses) = hits

\* C26: hits and misses count the get calls since construction or the last
\* clear() that gave a value and that gave none, and getStats().hitRate is
\* hits / (hits + misses), 0 when no get has been made, and 1/2 after one
\* hit and one miss.
C26_HitRate ==
  [][/\ cache.stats.hits = 0 /\ cache.stats.misses = 0
          => MC_getStats(cache).hitRate = Num(0)
     /\ GetsCounted
     /\ ret'.op = "getStats" =>
          LET s == MC_getStats(cache')
          IN /\ s.hits + s.misses = 0 => ret'.result = Num(0)
             /\ s.hits + s.misses > 0 => IsRate(ret'.result, s.hits, s.misses)
             /\ (s.hits = 1 /\ s.misses = 1) => ret'.result = Quotient(1, 2)]_vars

\* getStats() has been called after exactly one hit and one miss.
C26_Witness ==
  /\ ret.op = "getStats"
  /\ cache.stats.hits = 1
  /\ cache.stats.misses = 1
  /\ ret.result = Quotient(1, 2)

----------------------------------------------------------------------------
(* SpecConfig: new HyperDB({cache: {enabled: true, maxSize, ttl}}) on an   *)
(* empty data directory, and its set and get calls as in SpecKV.           *)
(* hist.config is the cache part of the options the constructor was given. *)

MaxConfigSize == 2   \* cache.maxSize of the options is 1 .. MaxConfigSize
MaxConfigTtl == 2    \* cache.ttl of the options is 1 .. MaxConfigTtl

ConfigKeys == {"a", "b", "c"}

\* validateConfig(options).cache: the options' own cache part, which the
\* merge puts over the defaults
ValidateConfig_cache(maxSize, ttl) == [enabled |-> TRUE, maxSize |-> maxSize, ttl |-> ttl]

\* The constructor's cache, whatever this.config.cache holds:
\* this.cache = new MemoryCache()
HyperDB_cache(config) == MemoryCache(0, 0)

InitConfig ==
  /\ now = 0
  /\ ret = NoRet
  /\ \E maxSize \in 1 .. MaxConfigSize, ttl \in 1 .. MaxConfigTtl :
       /\ hist = [settled |-> [key \in ConfigKeys |-> NoValue],
                  alone |-> [key \in ConfigKeys |-> FALSE],
                  config |-> ValidateConfig_cache(maxSize, ttl)]
       /\ cache = HyperDB_cache(hist.config)
  /\ kvFiles = <<>>
  /\ connected = TRUE
  /\ pending = <<>>
  /\ collections = {}
  /\ listFile = {}
  /\ dirs = <<>>
  /\ registry = {}
  /\ genCount = 0
  /\ docCalls = 0

\* A millisecond passes.
ConfigTick ==
  /\ now < MaxTime
  /\ now' = now + 1
  /\ UNCHANGED <<cache, ret, kvVars, docVars>>

NextConfig ==
  \/ \E key \in ConfigKeys : KvSetCall(key, Num(1), "ok")
  \/ \E key \in ConfigKeys : KvGetCall(key)
  \/ KvResume
  \/ ConfigTick

SpecConfig == InitConfig /\ [][NextConfig]_vars

\* C27: the cache of a HyperDB constructed with cache.maxSize = N and
\* cache.ttl = T never holds more than N entries, and each entry that set
\* or get has written expires T after it was written at the latest.
C27_ConfiguredLimits ==
  /\ MC_size(cache) <= hist.config.maxSize
  /\ \A i \in DOMAIN cache.entries :
       cache.entries[i].expiry <= now + hist.config.ttl

----------------------------------------------------------------------------
(* Cache coherence of HyperDB's key/value calls, under SpecKV.             *)

\* C28: once every call has completed, the last set or delete of a key
\* among them having returned true or a delete result, a cache entry of
\* the key has a file of the key in storage, and its value is the value
\* the file holds.
C28_CacheCoherence ==
  \A key \in KvKeys :
    (/\ pending = <<>>
     /\ connected
     /\ hist.settled[key] # NoValue
     /\ HasEntry(cache, key))
      => /\ FileExists(kvFiles, key)
         /\ EntryOf(cache, key).value = JSONparse(kvFiles[key])

----------------------------------------------------------------------------
(* SpecInit: the engine of a HyperDB right after `new HyperDB(options)`,   *)
(* on a data directory that an earlier session may have written.  The      *)
(* constructor has called _loadInitialData() and not awaited it:           *)
(* initialize() has run up to `await this.adapter.connect()`, whose body   *)
(* is synchronous, so the adapter is connected and holds the names of      *)
(* collections.json.  pending holds what is left of initialize():          *)
(* at "connected" it calls getCollections() and awaits it, at "listed" it  *)
(* puts the names it was given into the registry.  The caller's document   *)
(* calls are those of SpecDocs, made before, between or after these steps. *)

\* What is left of initialize() after an await
InitWaiting(at, names) == [op |-> "initialize", at |-> at, names |-> names]

\* The registry with the collections of the listing names put in
Engine_initialize_Load(reg, known, names) ==
  reg \cup {name \in known :
              \E i \in DOMAIN names :
                names[i] = Doc1("name", Str(NameText(name)))}

\* initialize() goes on from its await.
InitResume ==
  /\ pending # <<>>
  /\ LET call == Head(pending)
     IN IF call.at = "connected"
          THEN /\ pending' = <<InitWaiting("listed",
                                 Adapter_getCollections(Fs, connected).found)>>
               /\ UNCHANGED registry
          ELSE /\ pending' = <<>>
               /\ registry' = Engine_initialize_Load(registry, collections,
                                                     call.names)
  /\ ret' = [NoDocRet EXCEPT !.op = "initialize"]
  /\ UNCHANGED <<now, cache, kvFiles, connected, hist, collections, listFile,
                 dirs, genCount, docCalls>>

\* The directory is empty, or holds what an insert of an earlier session
\* has written; the constructor has returned.
InitInit ==
  /\ now = 0
  /\ cache = MemoryCache(0, 0)
  /\ ret = NoDocRet
  /\ kvFiles = <<>>
  /\ hist = [settled |-> <<>>]
  /\ genCount = 0
  /\ docCalls = 0
  /\ registry = {}
  /\ \E disk \in {[collections |-> {}, listFile |-> {}, dirs |-> <<>>],
                  [AfterInsert(<<"u">>, Doc2("id", Str("a"), "x", Num(1))).fs
                     EXCEPT !.collections = {}]} :
       LET opened == Adapter_connect(disk, FALSE, "ok")
       IN /\ collections = opened.fs.collections
          /\ listFile = opened.fs.listFile
          /\ dirs = opened.fs.dirs
          /\ connected = opened.connected
  /\ pending = <<InitWaiting("connected", <<>>)>>

NextInit ==
  \/ InitResume
  \/ \E name \in AdapterCollections : DocsCreateCollection(name)
  \/ \E collection \in AdapterCollections, document \in AdapterDocs :
       DocsInsert(collection, document)
  \/ \E collection \in AdapterCollections, query \in AdapterQueries :
       DocsFindOne(collection, query)
  \/ \E collection \in AdapterCollections, query \in AdapterQueries :
       DocsFind(collection, query)
  \/ \E collection \in AdapterCollections, query \in AdapterQueries,
        update \in AdapterUpdates :
       DocsUpdate(collection, query, update)
  \/ \E collection \in AdapterCollections, query \in AdapterQueries :
       DocsDeleteFrom(collection, query)

SpecInit == InitInit /\ [][NextInit]_vars

\* What the call that ret2 names gives on the state of the step's start
\* with the registry reg
Reissued(ret2, reg) ==
  CASE ret2.op = "createCollection" ->
         Engine_createCollection(Fs, reg, connected, ret2.collection)
    [] ret2.op = "insert" ->
         Engine_insert(Fs, reg, connected, ret2.collection, ret2.document,
                       now, genCount)
    [] ret2.op = "findOne" ->
         Engine_findOne(Fs, reg, connected, ret2.collection, ret2.query)
    [] ret2.op = "find" ->
         Engine_find(Fs, reg, connected, ret2.collection, ret2.query)
    [] ret2.op = "update" ->
         Engine_update(Fs, reg, connected, ret2.collection, ret2.query,
                       ret2.document, now)
    [] ret2.op = "deleteFrom" ->
         Engine_deleteFrom(Fs, reg, connected, ret2.collection, ret2.query)

\* C29: a document call made while initialize() has not completed returns
\* what the same call returns once initialize() has completed, that is with
\* the registry holding the names of collections.json as well.
C29_SameBeforeInitialized ==
  [][(pending # <<>> /\ pending' = pending) =>
       LET after == Reissued(ret', Engine_initialize_Load(registry,
                       collections, Adapter_getCollections(Fs, connected).found))
       IN /\ ret'.result = after.result
          /\ ret'.found = after.found]_vars

----------------------------------------------------------------------------
(* findOne against find, under SpecDocs.                                   *)

\* C30: findOne(collection, query) returns a document exactly when
\* find(collection, query), on the same state, returns at least one, and
\* the document findOne returns is one of those find returns.
C30_FindOneAgreesWithFind ==
  [][ret'.op = "findOne" =>
       LET all == Engine_find(Fs, registry, connected, ret'.collection,
                              ret'.query).found
       IN /\ (ret'.found # <<>>) <=> (all # <<>>)
          /\ ret'.found # <<>> =>
               \E i \in DOMAIN all : all[i] = ret'.found[1]]_vars

----------------------------------------------------------------------------
(* The engine after close(), under SpecDocs.                               *)

\* C31: an engine operation called after close() and before a new
\* initialize() fails with the not-connected error.
C31_NotConnectedSurfaced ==
  [][(/\ ~connected
      /\ ret'.op \in {"insert", "findOne", "find", "update", "deleteFrom"})
       => ret'.result = NotConnected]_vars

----------------------------------------------------------------------------
(* SpecUndo: update and deleteFrom calls of the engine that overlap, on    *)
(* the directory of SpecConc.  update waits at the await of its find, as   *)
(* in SpecConc.  deleteFrom with an id in the query unlinks the file       *)
(* inside the call and waits only to return; without one it waits at the   *)
(* await of its find and unlinks afterwards.  hist is the calls that have  *)
(* returned, oldest first.                                                 *)

\* A deleteFrom that waits: to return result, or (at "found") to delete docs
UndoWaiting(at, collection, query, docs, result) ==
  [op |-> "deleteFrom", at |-> at, collection |-> collection, query |-> query,
   document |-> EmptyQuery, docs |-> docs, result |-> result]

\* deleteFrom(collection, query) after the await of its find: the loop
\* over docs, the documents find gave before the await
Adapter_deleteFrom_Unlink(fs, collection, docs) ==
  IF docs = <<>> THEN Returns(fs, Num(0))
  ELSE LET deleted == DeleteEach([dir |-> fs.dirs[NormalizeName(collection)],
                                  deletedCount |-> 0], docs, 1)
       IN Returns([fs EXCEPT !.dirs[NormalizeName(collection)] = deleted.dir],
                  Num(deleted.deletedCount))

\* StorageEngine.deleteFrom up to its first await
ConcDeleteFromCall(collection, query) ==
  /\ CanWrite
  /\ Len(pending) < MaxPending
  /\ docCalls' = docCalls + 1
  /\ IF collection \notin registry \/ NormalizeName(collection) \notin collections
       THEN /\ pending' = Append(pending,
                 UndoWaiting("done", collection, query, <<>>, Num(0)))
            /\ UNCHANGED dirs
       ELSE IF Truthy(Or(Field(query, "id"), Field(query, "_id")))
         THEN LET r == Adapter_deleteFrom(Fs, connected, collection, query)
              IN /\ dirs' = r.fs.dirs
                 /\ pending' = Append(pending,
                      UndoWaiting("done", collection, query, <<>>, r.result))
         ELSE /\ pending' = Append(pending,
                   UndoWaiting("found", collection, query,
                     Adapter_find(Fs, connected, collection, query).found,
                     Num(0)))
              /\ UNCHANGED dirs
  /\ UNCHANGED <<now, cache, ret, kvFiles, connected, hist, collections,
                 listFile, registry, genCount>>

\* The event loop resumes the oldest waiting call
UndoResume ==
  /\ pending # <<>>
  /\ LET call == Head(pending)
         r == CASE call.op = "update" ->
                     Adapter_update_Write(Fs, call.collection, call.docs,
                                          call.document, now)
                [] call.op = "deleteFrom" /\ call.at = "found" ->
                     Adapter_deleteFrom_Unlink(Fs, call.collection, call.docs)
                [] OTHER -> Returns(Fs, call.result)
     IN /\ dirs' = r.fs.dirs
        /\ pending' = Tail(pending)
        /\ ConcReturn(call.op, call.collection, call.query, call.document, r)
  /\ UNCHANGED <<now, cache, kvFiles, connected, collections, listFile,
                 registry, genCount, docCalls>>

NextUndo ==
  \/ \E collection \in AdapterCollections, query \in ConcQueries,
        update \in ConcUpdates :
       ConcUpdateCall(collection, query, update)
  \/ \E collection \in AdapterCollections, query \in ConcQueries :
       ConcDeleteFromCall(collection, query)
  \/ UndoResume
  \/ ConcTick

SpecUndo == InitConc /\ [][NextUndo]_vars

\* C32: once every call has completed, a deleteFrom having returned 1 (the
\* count of the one document, a), find returns no document and findOne of
\* the document returns null.
C32_DeleteNotUndone ==
  (/\ pending = <<>>
   /\ \E i \in DOMAIN hist :
        hist[i].op = "deleteFrom" /\ hist[i].result = Num(1))
    => /\ Engine_find(Fs, registry, connected, <<"u">>, EmptyQuery).found = <<>>
       /\ Engine_findOne(Fs, registry, connected, <<"u">>,
                         Doc1("id", Str("a"))).result = Null

----------------------------------------------------------------------------
(* SpecBatch: update calls of the adapter on a collection of two           *)
(* documents, where a writeFileSync of the update's loop may throw         *)
(* (no space, no permission).  failAt is the write that throws: the        *)
(* first, the second, ..., or 0 for none.  hist.failAt is that of the      *)
(* last call.                                                              *)

MaxFailAt == 2      \* the writes of a batch that may throw: 1 .. MaxFailAt

BatchQueries == {EmptyQuery, Doc1("x", Num(1)), Doc1("id", Str("a"))}
BatchUpdates == {Doc1("x", Num(2)), Doc1("y", Num(1))}

\* async update(collection, query, update) whose failAt-th writeFileSync
\* throws: the documents before it are written, the catch returns 0
Adapter_update_FailAt(fs, conn, collection, query, update, n, failAt) ==
  LET normalizedName == NormalizeName(collection)
      docs == Adapter_find(fs, conn, collection, query).found
  IN IF ~conn \/ normalizedName \notin fs.collections
          \/ failAt = 0 \/ failAt > Len(docs)
       THEN Adapter_update(fs, conn, collection, query, update, n)
       ELSE Returns([fs EXCEPT !.dirs[normalizedName] =
                       UpdateEach(@, SubSeq(docs, 1, failAt - 1), 1, update, n)],
                    Num(0))

BatchUpdate(collection, query, update, failAt) ==
  /\ CanWrite
  /\ docCalls' = docCalls + 1
  /\ hist' = [failAt |-> failAt]
  /\ LET r == Adapter_update_FailAt(Fs, connected, collection, query, update,
                                    now, failAt)
     IN /\ dirs' = r.fs.dirs
        /\ ret' = DocRet("update", collection, query, update, r)
  /\ UNCHANGED <<now, cache, kvFiles, connected, pending, collections,
                 listFile, registry, genCount>>

BatchFind(collection, query) ==
  /\ ret' = DocRet("find", collection, query, EmptyQuery,
                   Adapter_find(Fs, connected, collection, query))
  /\ UNCHANGED <<now, cache, kvVars, docVars>>

\* The directory holds what the inserts of {id: 'a', x: 1} and of
\* {id: 'b', x: 1} into 'u' have written.
InitBatch ==
  /\ now = 0
  /\ cache = MemoryCache(0, 0)
  /\ ret = NoDocRet
  /\ kvFiles = <<>>
  /\ connected = TRUE
  /\ pending = <<>>
  /\ hist = [failAt |-> 0]
  /\ genCount = 0
  /\ docCalls = 0
  /\ LET first == AfterInsert(<<"u">>, Doc2("id", Str("a"), "x", Num(1)))
         second == Engine_insert(first.fs, first.registry, TRUE, <<"u">>,
                                 Doc2("id", Str("b"), "x", Num(1)), 0, 0)
     IN /\ collections = second.fs.collections
        /\ listFile = second.fs.listFile
        /\ dirs = second.fs.dirs
        /\ registry = second.registry

NextBatch ==
  \/ \E collection \in AdapterCollections, query \in BatchQueries,
        update \in BatchUpdates, failAt \in 0 .. MaxFailAt :
       BatchUpdate(collection, query, update, failAt)
  \/ \E collection \in AdapterCollections, query \in BatchQueries :
       BatchFind(collection, query)
  \/ ConcTick

SpecBatch == InitBatch /\ [][NextBatch]_vars

\* C33: an update that returns 0 leaves every stored document of the
\* collection as it was.
C33_ZeroChangesNothing ==
  [][(ret'.op = "update" /\ ret'.result = Num(0) /\ docCalls' = docCalls + 1)
       => dirs' = dirs]_vars

----------------------------------------------------------------------------
(* SpecTrack: a StorageEngine from `new StorageEngine(config)` on, over a  *)
(* data directory that an earlier session may have written: initialize(),  *)
(* createCollection and insert whose mkdirSync or write of                 *)
(* collections.json may throw, and close().  Each call is awaited before   *)
(* the next.  hist.fault is the fault of the last call.                    *)

TrackNames == {<<"u">>, <<"U">>, <<"v">>}
TrackFaults == {"none", "mkdir", "writeList"}

\* StorageEngine.createCollection that puts the name into this.collections
\* whatever the adapter returned
Engine_createCollection_Io_Unchecked(fs, reg, conn, name, fault) ==
  LET r == Adapter_createCollection_Io(fs, conn, name, fault)
  IN [fs |-> r.fs, registry |-> IF Threw(r) THEN reg ELSE reg \cup {name},
      result |-> r.result, found |-> r.found]

\* StorageEngine.createCollection
Engine_createCollection_Io(fs, reg, conn, name, fault) ==
  LET r == Adapter_createCollection_Io(fs, conn, name, fault)
  IN [fs |-> r.fs,
      registry |-> IF ~Threw(r) /\ Truthy(r.result) THEN reg \cup {name} ELSE reg,
      result |-> r.result, found |-> r.found]

\* StorageEngine.insert
Engine_insert_Io(fs, reg, conn, collection, document, n, count, fault) ==
  LET created == IF collection \notin reg
                   THEN Engine_createCollection_Io(fs, reg, conn, collection,
                                                   fault)
                   ELSE WithRegistry(Returns(fs, Bool(TRUE)), reg)
  IN IF Threw(created) THEN created
     ELSE WithRegistry(Adapter_insert_Io(created.fs, conn, collection,
                                         document, n, count, fault),
                       created.registry)

TrackCreateCollection(name, fault) ==
  /\ CanWrite
  /\ docCalls' = docCalls + 1
  /\ hist' = [fault |-> fault]
  /\ LET r == Engine_createCollection_Io(Fs, registry, connected, name, fault)
     IN /\ collections' = r.fs.collections
        /\ listFile' = r.fs.listFile
        /\ dirs' = r.fs.dirs
        /\ registry' = r.registry
        /\ ret' = DocRet("createCollection", name, EmptyQuery, EmptyQuery, r)
  /\ UNCHANGED <<now, cache, kvFiles, connected, pending, genCount>>

TrackInsert(collection, document, fault) ==
  /\ CanWrite
  /\ docCalls' = docCalls + 1
  /\ hist' = [fault |-> fault]
  /\ LET r == Engine_insert_Io(Fs, registry, connected, collection, document,
                               now, genCount, fault)
     IN /\ collections' = r.fs.collections
        /\ listFile' = r.fs.listFile
        /\ dirs' = r.fs.dirs
        /\ registry' = r.registry
        /\ ret' = DocRet("insert", collection, EmptyQuery, document, r)
  /\ UNCHANGED <<now, cache, kvFiles, connected, pending, genCount>>

\* async initialize() of an engine that is not connected
TrackInitialize ==
  /\ ~connected
  /\ LET r == Engine_initialize(Fs)
     IN /\ collections' = r.fs.collections
        /\ listFile' = r.fs.listFile
        /\ dirs' = r.fs.dirs
        /\ registry' = registry \cup r.registry
  /\ connected' = TRUE
  /\ hist' = [fault |-> "none"]
  /\ ret' = [NoDocRet EXCEPT !.op = "initialize", !.at = now]
  /\ UNCHANGED <<now, cache, kvFiles, pending, genCount, docCalls>>

\* async close()
TrackClose ==
  /\ connected
  /\ connected' = FALSE
  /\ registry' = {}
  /\ hist' = [fault |-> "none"]
  /\ ret' = [NoDocRet EXCEPT !.op = "close", !.at = now]
  /\ UNCHANGED <<now, cache, kvFiles, pending, collections, listFile, dirs,
                 genCount, docCalls>>

\* The constructor has run; the directory is empty, or holds what an
\* insert of an earlier session has written.
InitTrack ==
  /\ now = 0
  /\ cache = MemoryCache(0, 0)
  /\ ret = NoDocRet
  /\ kvFiles = <<>>
  /\ connected = FALSE
  /\ pending = <<>>
  /\ hist = [fault |-> "none"]
  /\ genCount = 0
  /\ docCalls = 0
  /\ registry = {}
  /\ collections = {}
  /\ \E disk \in {[collections |-> {}, listFile |-> {}, dirs |-> <<>>],
                  AfterInsert(<<"u">>, Doc2("id", Str("a"), "x", Num(1))).fs} :
       /\ listFile = disk.listFile
       /\ dirs = disk.dirs

NextTrack ==
  \/ TrackInitialize
  \/ \E name \in TrackNames, fault \in TrackFaults :
       TrackCreateCollection(name, fault)
  \/ \E collection \in TrackNames, document \in AdapterDocs,
        fault \in TrackFaults :
       TrackInsert(collection, document, fault)
  \/ TrackClose

SpecTrack == InitTrack /\ [][NextTrack]_vars

----------------------------------------------------------------------------
(* JSONAdapter (src/adapters/json-adapter.js).  data is this.data: kvStore *)
(* (key -> value) and collections (normalized name -> array of documents), *)
(* held in memory as the values the caller gave; _saveData() writes both   *)
(* to their files after every change, and connect() reads them back.  Each *)
(* operator gives data afterwards, what the call returns or throws, and    *)
(* the documents it returns.                                               *)

Json_NotConnected == Error("Not connected to JSON storage")

JsonThrows(data) == [data |-> data, result |-> Json_NotConnected, found |-> <<>>]
JsonReturns(data, value) == [data |-> data, result |-> value, found |-> <<>>]
JsonReturnsDocs(data, docs) == [data |-> data, result |-> Object, found |-> docs]

\* delete obj[key]
DeleteKey(obj, key) == [k \in DOMAIN obj \ {key} |-> obj[k]]

\* doc.id === id || doc._id === id
HasId(doc, id) == StrictEq(Field(doc, "id"), id) \/ StrictEq(Field(doc, "_id"), id)

\* array.findIndex(doc => doc.id === id || doc._id === id), from 1; 0 for -1
IndexOfId(docs, id) ==
  IF \E i \in DOMAIN docs : HasId(docs[i], id)
    THEN CHOOSE i \in DOMAIN docs :
           HasId(docs[i], id) /\ \A j \in 1 .. i - 1 : ~HasId(docs[j], id)
    ELSE 0

\* JSON.parse(JSON.stringify(obj)): what connect() reads of what
\* _saveData() wrote; a key whose value has no JSON text is left out
JsonRoundTrip(obj) ==
  [k \in {j \in DOMAIN obj : JSONSerializable(obj[j])} |->
     JSONparse(JSONstringify(obj[k]))]

\* async connect(): this.data is what the two files hold
Json_connect(data) ==
  [kvStore |-> JsonRoundTrip(data.kvStore),
   collections |-> [c \in DOMAIN data.collections |->
                      [i \in DOMAIN data.collections[c] |->
                         JsonRoundTrip(data.collections[c][i])]]]

\* async set(key, value)
Json_set(data, conn, key, value) ==
  IF ~conn THEN JsonThrows(data)
  ELSE JsonReturns([data EXCEPT !.kvStore = Put(@, key, value)], Bool(TRUE))

\* async get(key): this.data.kvStore[key] || null
Json_get(data, conn, key) ==
  IF ~conn THEN JsonThrows(data)
  ELSE JsonReturns(data, Or(Field(data.kvStore, key), Null))

\* async has(key)
Json_has(data, conn, key) ==
  IF ~conn THEN JsonThrows(data)
  ELSE JsonReturns(data, Bool(key \in DOMAIN data.kvStore))

\* async delete(key)
Json_delete(data, conn, key) ==
  IF ~conn THEN JsonThrows(data)
  ELSE IF key \in DOMAIN data.kvStore
    THEN JsonReturns([data EXCEPT !.kvStore = DeleteKey(@, key)], Bool(TRUE))
    ELSE JsonReturns(data, Bool(FALSE))

\* async createCollection(name)
Json_createCollection(data, conn, name) ==
  IF ~conn THEN JsonThrows(data)
  ELSE LET normalizedName == NormalizeName(name)
       IN IF normalizedName \in DOMAIN data.collections
            THEN JsonReturns(data, Bool(TRUE))
            ELSE JsonReturns([data EXCEPT !.collections =
                                Put(@, normalizedName, <<>>)],
                             Bool(TRUE))

\* async insert(collection, document); n is Date.now(), count the ids
\* generateId() has handed out
Json_insert(data, conn, collection, document, n, count) ==
  IF ~conn THEN JsonThrows(data)
  ELSE
    LET normalizedName == NormalizeName(collection)
        ensured == Json_createCollection(data, conn, normalizedName).data
        docWithId == IF NeedsId(document)
                       THEN Put(document, "id", Str(GenerateId(count)))
                       ELSE document
        id == Or(Field(docWithId, "id"), Field(docWithId, "_id"))
        stamped == Put(Put(docWithId, "created_at", Num(n)), "updated_at", Num(n))
        docs == ensured.collections[normalizedName]
        existingIndex == IndexOfId(docs, id)
    IN JsonReturns([ensured EXCEPT !.collections[normalizedName] =
                      IF existingIndex > 0
                        THEN [docs EXCEPT ![existingIndex] = stamped]
                        ELSE Append(docs, stamped)],
                   Bool(TRUE))

\* async find(collection, query)
Json_find(data, conn, collection, query) ==
  IF ~conn THEN JsonThrows(data)
  ELSE
    LET normalizedName == NormalizeName(collection)
    IN IF normalizedName \notin DOMAIN data.collections
         THEN JsonReturnsDocs(data, <<>>)
         ELSE JsonReturnsDocs(data,
                SelectSeq(data.collections[normalizedName],
                          LAMBDA doc : DOMAIN query = {} \/ Matches(doc, query)))

\* async findOne(collection, query)
Json_findOne(data, conn, collection, query) ==
  IF ~conn THEN JsonThrows(data)
  ELSE
    LET normalizedName == NormalizeName(collection)
        id == Or(Field(query, "id"), Field(query, "_id"))
    IN IF normalizedName \notin DOMAIN data.collections
         THEN JsonReturns(data, Null)
         ELSE LET docs == data.collections[normalizedName]
                  hits == IF Truthy(id)
                            THEN SelectSeq(docs, LAMBDA doc : HasId(doc, id))
                            ELSE SelectSeq(docs, LAMBDA doc : Matches(doc, query))
              IN IF hits = <<>> THEN JsonReturns(data, Null)
                 ELSE JsonReturnsDocs(data, <<hits[1]>>)

RECURSIVE Json_updateEach(_, _, _, _, _)
\* The loop of update over the documents find gave, from the i-th on:
\* the array afterwards and updatedCount
Json_updateEach(state, docs, i, update, n) ==
  IF i > Len(docs) THEN state
  ELSE
    LET index == IndexOfId(state.docs, Or(Field(docs[i], "id"),
                                          Field(docs[i], "_id")))
    IN Json_updateEach(
         IF index > 0
           THEN [docs |-> [state.docs EXCEPT ![index] =
                             Put(Spread(state.docs[index], update),
                                 "updated_at", Num(n))],
                 updatedCount |-> state.updatedCount + 1]
           ELSE state,
         docs, i + 1, update, n)

\* async update(collection, query, update)
Json_update(data, conn, collection, query, update, n) ==
  IF ~conn THEN JsonThrows(data)
  ELSE
    LET normalizedName == NormalizeName(collection)
        docs == Json_find(data, conn, collection, query).found
    IN IF normalizedName \notin DOMAIN data.collections \/ docs = <<>>
         THEN JsonReturns(data, Num(0))
         ELSE LET done == Json_updateEach(
                            [docs |-> data.collections[normalizedName],
                             updatedCount |-> 0], docs, 1, update, n)
              IN JsonReturns([data EXCEPT !.collections[normalizedName] =
                                done.docs],
                             Num(done.updatedCount))

\* async deleteFrom(collection, query)
Json_deleteFrom(data, conn, collection, query) ==
  IF ~conn THEN JsonThrows(data)
  ELSE
    LET normalizedName == NormalizeName(collection)
        docs == Json_find(data, conn, collection, query).found
        idsToDelete == {Or(Field(docs[i], "id"), Field(docs[i], "_id")) :
                          i \in DOMAIN docs}
    IN IF normalizedName \notin DOMAIN data.collections \/ docs = <<>>
         THEN JsonReturns(data, Num(0))
         ELSE LET kept == SelectSeq(data.collections[normalizedName],
                            LAMBDA doc : /\ Field(doc, "id") \notin idsToDelete
                                         /\ Field(doc, "_id") \notin idsToDelete)
              IN JsonReturns([data EXCEPT !.collections[normalizedName] = kept],
                             Num(Len(data.collections[normalizedName])
                                   - Len(kept)))

----------------------------------------------------------------------------
(* SpecTwin: a FileStoreAdapter and a JSONAdapter, each connected on a     *)
(* directory of its own that was empty, are given the same calls in the    *)
(* same order.  The FileStoreAdapter's directory is kvFiles, collections,  *)
(* listFile and dirs, and ret is what its call gave; hist holds the        *)
(* JSONAdapter: this.data, this.connected and what its call gave.          *)

TwinValues == {Num(0), Num(1)}
TwinDocs == {Doc2("id", Str("a"), "x", Num(1)), Doc2("id", Str("b"), "x", Num(1))}
TwinQueries ==
  {EmptyQuery, Doc1("x", Num(1)), Doc2("id", Str("a"), "x", Num(2))}

TwinRet(op, result, found) == [op |-> op, result |-> result, found |-> found]

\* What the JSONAdapter is after a call that gave r
TwinJson(r) == [hist EXCEPT !.data = r.data,
                            !.ret = [result |-> r.result, found |-> r.found]]

TwinConnect ==
  /\ ~connected
  /\ LET r == Adapter_connect(Fs, connected, "ok")
     IN /\ collections' = r.fs.collections
        /\ listFile' = r.fs.listFile
        /\ dirs' = r.fs.dirs
        /\ connected' = r.connected
        /\ ret' = TwinRet("connect", r.result, <<>>)
  /\ hist' = [data |-> Json_connect(hist.data), connected |-> TRUE,
              ret |-> [result |-> Bool(TRUE), found |-> <<>>]]
  /\ UNCHANGED <<now, cache, kvFiles, pending, registry, genCount, docCalls>>

TwinClose ==
  /\ connected
  /\ connected' = Adapter_close(Fs).connected
  /\ ret' = TwinRet("close", Adapter_close(Fs).result, <<>>)
  /\ hist' = [hist EXCEPT !.connected = FALSE,
                          !.ret = [result |-> Bool(TRUE), found |-> <<>>]]
  /\ UNCHANGED <<now, cache, kvFiles, pending, collections, listFile, dirs,
                 registry, genCount, docCalls>>

TwinSet(key, value) ==
  /\ CanWrite
  /\ docCalls' = docCalls + 1
  /\ kvFiles' = Adapter_set(kvFiles, connected, key, value, "ok").files
  /\ ret' = TwinRet("set", Adapter_set(kvFiles, connected, key, value, "ok").result,
                    <<>>)
  /\ hist' = TwinJson(Json_set(hist.data, hist.connected, key, value))
  /\ UNCHANGED <<now, cache, connected, pending, collections, listFile, dirs,
                 registry, genCount>>

TwinGet(key) ==
  /\ ret' = TwinRet("get", Adapter_get(kvFiles, connected, key), <<>>)
  /\ hist' = TwinJson(Json_get(hist.data, hist.connected, key))
  /\ UNCHANGED <<now, cache, kvFiles, connected, pending, collections, listFile,
                 dirs, registry, genCount, docCalls>>

TwinHas(key) ==
  /\ ret' = TwinRet("has", Adapter_has(kvFiles, connected, key), <<>>)
  /\ hist' = TwinJson(Json_has(hist.data, hist.connected, key))
  /\ UNCHANGED <<now, cache, kvFiles, connected, pending, collections, listFile,
                 dirs, registry, genCount, docCalls>>

TwinDelete(key) ==
  /\ CanWrite
  /\ docCalls' = docCalls + 1
  /\ kvFiles' = Adapter_delete(kvFiles, connected, key).files
  /\ ret' = TwinRet("delete", Adapter_delete(kvFiles, connected, key).result, <<>>)
  /\ hist' = TwinJson(Json_delete(hist.data, hist.connected, key))
  /\ UNCHANGED <<now, cache, connected, pending, collections, listFile, dirs,
                 registry, genCount>>

\* A call on documents: r is what the FileStoreAdapter's gave, j the
\* JSONAdapter's
TwinCall(op, r, j) ==
  /\ collections' = r.fs.collections
  /\ listFile' = r.fs.listFile
  /\ dirs' = r.fs.dirs
  /\ ret' = TwinRet(op, r.result, r.found)
  /\ hist' = TwinJson(j)
  /\ UNCHANGED <<now, cache, kvFiles, connected, pending, registry, genCount>>

TwinCreateCollection(name) ==
  /\ CanWrite
  /\ docCalls' = docCalls + 1
  /\ TwinCall("createCollection",
              Adapter_createCollection(Fs, connected, name),
              Json_createCollection(hist.data, hist.connected, name))

TwinInsert(collection, document) ==
  /\ CanWrite
  /\ docCalls' = docCalls + 1
  /\ TwinCall("insert",
              Adapter_insert(Fs, connected, collection, document, now, genCount),
              Json_insert(hist.data, hist.connected, collection, document, now,
                          genCount))

TwinFindOne(collection, query) ==
  /\ UNCHANGED docCalls
  /\ TwinCall("findOne",
              Adapter_findOne(Fs, connected, collection, query),
              Json_findOne(hist.data, hist.connected, collection, query))

TwinFind(collection, query) ==
  /\ UNCHANGED docCalls
  /\ TwinCall("find",
              Adapter_find(Fs, connected, collection, query),
              Json_find(hist.data, hist.connected, collection, query))

TwinUpdate(collection, query, update) ==
  /\ CanWrite
  /\ docCalls' = docCalls + 1
  /\ TwinCall("update",
              Adapter_update(Fs, connected, collection, query, update, now),
              Json_update(hist.data, hist.connected, collection, query, update,
                          now))

TwinDeleteFrom(collection, query) ==
  /\ CanWrite
  /\ docCalls' = docCalls + 1
  /\ TwinCall("deleteFrom",
              Adapter_deleteFrom(Fs, connected, collection, query),
              Json_deleteFrom(hist.data, hist.connected, collection, query))

\* Both adapters constructed and connected, each on an empty directory
InitTwin ==
  /\ now = 0
  /\ cache = MemoryCache(0, 0)
  /\ ret = TwinRet("connect", Bool(TRUE), <<>>)
  /\ connected = TRUE
  /\ pending = <<>>
  /\ hist = [data |-> [kvStore |-> <<>>, collections |-> <<>>],
             connected |-> TRUE,
             ret |-> [result |-> Bool(TRUE), found |-> <<>>]]
  /\ registry = {}
  /\ genCount = 0
  /\ docCalls = 0
  /\ collections = {}
  /\ kvFiles = <<>>
  /\ listFile = {}
  /\ dirs = <<>>

NextTwin ==
  \/ TwinConnect
  \/ TwinClose
  \/ \E key \in KvKeys, value \in TwinValues : TwinSet(key, value)
  \/ \E key \in KvKeys : TwinGet(key)
  \/ \E key \in KvKeys : TwinHas(key)
  \/ \E key \in KvKeys : TwinDelete(key)
  \/ \E name \in AdapterCollections : TwinCreateCollection(name)
  \/ \E collection \in AdapterCollections, document \in TwinDocs :
       TwinInsert(collection, document)
  \/ \E collection \in AdapterCollections, query \in TwinQueries :
       TwinFindOne(collection, query)
  \/ \E collection \in AdapterCollections, query \in TwinQueries :
       TwinFind(collection, query)
  \/ \E collection \in AdapterCollections, query \in TwinQueries,
        update \in AdapterUpdates :
       TwinUpdate(collection, query, update)
  \/ \E collection \in AdapterCollections, query \in TwinQueries :
       TwinDeleteFrom(collection, query)

SpecTwin == InitTwin /\ [][NextTwin]_vars

\* The documents of a result list, whatever their order
DocsOf(found) == {found[i] : i \in DOMAIN found}

\* C35: given the same calls in the same order, a FileStoreAdapter and a
\* JSONAdapter give the same results: both throw or neither, the same value
\* returned, and the same documents in the list find returns, in any order
\* (findOne: a document from both or from neither).
C35_AdaptersInterchangeable ==
  /\ (ret.result.t = "error") = (hist.ret.result.t = "error")
  /\ ret.result.t # "error" => ret.result = hist.ret.result
  /\ ret.op = "findOne" => Len(ret.found) = Len(hist.ret.found)
  /\ ret.op = "find" => DocsOf(ret.found) = DocsOf(hist.ret.found)

\* set('k', 0) answered true by both, then get('k'): the FileStoreAdapter
\* returns 0, the JSONAdapter null
C35_FalsyValueLost ==
  ~(/\ ret.op = "get"
    /\ ret.result = Num(0)
    /\ hist.ret.result = Null)

\* deleteFrom with an id and a field the document does not match: the
\* FileStoreAdapter removes the document and returns 1, the JSONAdapter
\* keeps it and returns 0
C35_DeleteByIdDiffers ==
  ~(/\ ret.op = "deleteFrom"
    /\ ret.result = Num(1)
    /\ hist.ret.result = Num(0))

----------------------------------------------------------------------------
(* Further properties of the cache, under SpecCache.                       *)

\* C36: set(key, value, ttl) on a key the cache holds replaces its value,
\* resets its expires_at to the current time plus ttl (this.ttl when no ttl
\* is given), evicts nothing and leaves the size as it was, also when the
\* cache is at capacity.
C36_RefreshOnWrite ==
  [][\A key \in CacheKeys, value \in CacheValues, ttlArg \in TtlArgs :
       (CacheSet(key, value, ttlArg) /\ HasEntry(cache, key))
       => (/\ HasEntry(cache', key)
           /\ EntryOf(cache', key).value = value
           /\ EntryOf(cache', key).expiry =
                now + (IF ttlArg = Undefined THEN cache.ttl ELSE ttlArg.n)
           /\ MapKeys(cache'.entries) = MapKeys(cache.entries)
           /\ MC_size(cache') = MC_size(cache)
           /\ cache'.stats.deletes = cache.stats.deletes)]_vars

\* Three sets and no removal have left a full cache of "a" then "b", the
\* last set being of "a" at time 1: it met "a" in a full cache, and "a" now
\* expires after "b".
C36_Witness ==
  /\ ret.op = "set"
  /\ ret.key = "a"
  /\ now = 1
  /\ MC_size(cache) = cache.maxSize
  /\ cache.stats.sets = 3
  /\ cache.stats.deletes = 0
  /\ cache.entries[1].key = "a"
  /\ cache.entries[1].expiry = 2
  /\ cache.entries[2].expiry = 1

\* C37: lazy expiry touches only the key that is read: a get(key) or a
\* has(key) neither removes nor changes the entry of any other key, also
\* when other entries have expired.
C37_LazyExpiryLocal ==
  [][ret'.op \in {"get", "has"} =>
       \A other \in CacheKeys \ {ret'.key} :
         /\ HasEntry(cache', other) = HasEntry(cache, other)
         /\ HasEntry(cache, other) => EntryOf(cache', other) = EntryOf(cache, other)]_vars

\* A get or has has removed the expired entry of its key and left the
\* expired entry of another key where it was.
C37_Witness ==
  /\ ret.op \in {"get", "has"}
  /\ ret.removed = {ret.key}
  /\ \E other \in CacheKeys \ {ret.key} :
       /\ HasEntry(cache, other)
       /\ Expired(EntryOf(cache, other).expiry, now)

\* C38: cleanup() is a full sweep: when it returns, no entry whose
\* expires_at lies before the time of the call is left in the cache, and
\* every entry that had not expired is still there with the same value and
\* expires_at.
C38_CleanupFullSweep ==
  [][ret'.op = "cleanup" =>
       \A key \in CacheKeys :
         /\ HasEntry(cache', key) => ~(EntryOf(cache', key).expiry < now)
         /\ (HasEntry(cache, key) /\ ~(EntryOf(cache, key).expiry < now))
              => (/\ HasEntry(cache', key)
                  /\ EntryOf(cache', key) = EntryOf(cache, key))]_vars

\* A cleanup has removed an expired entry and kept the entry that had not
\* expired.
C38_Witness ==
  /\ ret.op = "cleanup"
  /\ ret.removed # {}
  /\ MC_size(cache) = 1
  /\ ~(cache.entries[1].expiry < now)

\* hits + misses of a cache
Reads(c) == c.stats.hits + c.stats.misses

\* C39: the counters of the cache are consistent after any sequence of
\* operations.  hits + misses is the number of get calls since construction
\* or the last clear(): it starts at 0, every get adds one to it, clear()
\* puts it back to 0 and no other operation changes it; has() changes
\* neither hits nor misses; every entry removed by delete, lazy expiry,
\* eviction or cleanup adds one to deletes; and size + deletes never
\* exceeds sets.
C39_CountersConsistent ==
  /\ Reads(cache) = 0
  /\ [](MC_size(cache) + cache.stats.deletes <= cache.stats.sets)
  /\ [][/\ Reads(cache') = IF ret'.op = "get" THEN Reads(cache) + 1
                            ELSE IF ret'.op = "clear" THEN 0
                            ELSE Reads(cache)
        /\ ret'.op = "has" => /\ cache'.stats.hits = cache.stats.hits
                              /\ cache'.stats.misses = cache.stats.misses
        /\ ret'.op # "clear" =>
             cache'.stats.deletes =
               cache.stats.deletes + Cardinality(ret'.removed)]_vars

\* A set, a get that hit and a get that met the entry expired and removed
\* it: one hit, one miss, one delete, and the cache empty.
C39_Witness ==
  /\ ret.op = "get"
  /\ ret.removed = {ret.key}
  /\ cache.stats = [hits |-> 1, misses |-> 1, sets |-> 1, deletes |-> 1]
  /\ MC_size(cache) = 0

====
